---------------------------- MODULE Spec2Model ----------------------------
(***************************************************************************)
(* A model of the typed-screeps declarations (dist/index.d.ts and its      *)
(* section src/structure.ts, which is lines 5754-6706 of the former).      *)
(*                                                                         *)
(* The repository holds type declarations only.  The model therefore has   *)
(* two layers:                                                             *)
(*   - the declarations as data: literal types, unions, interface heads,   *)
(*     the per-method declared return type and the result codes its        *)
(*     documentation lists, the conditional types of StoreBase;            *)
(*   - a script that uses them: it resolves a structure tag, compares and  *)
(*     assigns result codes, calls a method, queries a store.  What a      *)
(*     call yields at run time is what the method's documentation says     *)
(*     (its listed codes, its @throws); what the type checker expects is   *)
(*     the declared return type.                                           *)
(* Unions of literal types are sets of their literals; `A extends B` for   *)
(* such unions is A \subseteq B.                                           *)
(***************************************************************************)
EXTENDS Integers, FiniteSets, Sequences, TLC

VARIABLES
    resolve,    \* the last structure-tag resolution of the script
    cmp,        \* the last comparison / assignment of result codes
    call,       \* the last method call: declared type and outcome
    store,      \* the last Store capacity query
    tickv,      \* the host's tick snapshot (rooms, requests)
    market,     \* Game.market: the player's orders and the last market call
    segs,       \* RawMemory: active and available memory segments
    shards,     \* InterShardMemory: the data string of every shard
    pc,         \* a power creep of the player's account
    game,       \* creeps, their queued intents and Memory.creeps
    cm          \* the script's CostMatrix objects

vars == <<resolve, cmp, call, store, tickv, market, segs, shards, pc, game, cm>>

\* The records of the script's current statement.
scriptvars == <<resolve, cmp, call, store>>

\* The host's state.
hostvars == <<tickv, market, segs, shards, pc, game, cm>>

-----------------------------------------------------------------------------
(* Result codes: index.d.ts 2376-2417.                                     *)

\* type OK = 0; type ERR_NOT_OWNER = -1; ...  (lines 2397-2413), by name.
ReturnCodeType_NoAlias ==
    [ OK |-> 0, ERR_NOT_OWNER |-> -1, ERR_NO_PATH |-> -2,
      ERR_NAME_EXISTS |-> -3, ERR_BUSY |-> -4, ERR_NOT_FOUND |-> -5,
      ERR_NOT_ENOUGH_RESOURCES |-> -6, ERR_NOT_ENOUGH_ENERGY |-> -13,
      ERR_INVALID_TARGET |-> -7, ERR_FULL |-> -8, ERR_NOT_IN_RANGE |-> -9,
      ERR_INVALID_ARGS |-> -10, ERR_TIRED |-> -11, ERR_NO_BODYPART |-> -12,
      ERR_NOT_ENOUGH_EXTENSIONS |-> -6, ERR_RCL_NOT_ENOUGH |-> -14,
      ERR_GCL_NOT_ENOUGH |-> -15 ]

ReturnCodeType ==
    [ OK |-> 0, ERR_NOT_OWNER |-> -1, ERR_NO_PATH |-> -2,
      ERR_NAME_EXISTS |-> -3, ERR_BUSY |-> -4, ERR_NOT_FOUND |-> -5,
      ERR_NOT_ENOUGH_RESOURCES |-> -6, ERR_NOT_ENOUGH_ENERGY |-> -6,
      ERR_INVALID_TARGET |-> -7, ERR_FULL |-> -8, ERR_NOT_IN_RANGE |-> -9,
      ERR_INVALID_ARGS |-> -10, ERR_TIRED |-> -11, ERR_NO_BODYPART |-> -12,
      ERR_NOT_ENOUGH_EXTENSIONS |-> -6, ERR_RCL_NOT_ENOUGH |-> -14,
      ERR_GCL_NOT_ENOUGH |-> -15 ]

\* declare const OK: OK; ... (lines 3-19): the declared constants.
ReturnCodeConstants ==
    { "OK", "ERR_NOT_OWNER", "ERR_NO_PATH", "ERR_NAME_EXISTS", "ERR_BUSY",
      "ERR_NOT_FOUND", "ERR_NOT_ENOUGH_RESOURCES", "ERR_NOT_ENOUGH_ENERGY",
      "ERR_INVALID_TARGET", "ERR_FULL", "ERR_NOT_IN_RANGE",
      "ERR_INVALID_ARGS", "ERR_TIRED", "ERR_NO_BODYPART",
      "ERR_NOT_ENOUGH_EXTENSIONS", "ERR_RCL_NOT_ENOUGH",
      "ERR_GCL_NOT_ENOUGH" }

\* type ScreepsReturnCode = OK | ERR_NOT_OWNER | ... (lines 2378-2395).
ScreepsReturnCode ==
    { "OK", "ERR_NOT_OWNER", "ERR_NO_PATH", "ERR_BUSY", "ERR_NAME_EXISTS",
      "ERR_NOT_FOUND", "ERR_NOT_ENOUGH_RESOURCES", "ERR_NOT_ENOUGH_ENERGY",
      "ERR_INVALID_TARGET", "ERR_FULL", "ERR_NOT_IN_RANGE",
      "ERR_INVALID_ARGS", "ERR_TIRED", "ERR_NO_BODYPART",
      "ERR_NOT_ENOUGH_EXTENSIONS", "ERR_RCL_NOT_ENOUGH",
      "ERR_GCL_NOT_ENOUGH" }

\* line 2415
CreepActionReturnCode ==
    { "OK", "ERR_NOT_OWNER", "ERR_BUSY", "ERR_INVALID_TARGET",
      "ERR_NOT_IN_RANGE", "ERR_NO_BODYPART", "ERR_TIRED" }

\* line 2417
CreepMoveReturnCode ==
    { "OK", "ERR_NOT_OWNER", "ERR_BUSY", "ERR_TIRED", "ERR_NO_BODYPART" }

\* The three named unions of result codes.
ReturnCodeAliases == { "ScreepsReturnCode", "CreepActionReturnCode", "CreepMoveReturnCode" }

\* The members (names of literal types) of a named union.
AliasMembers(alias) ==
    CASE alias = "ScreepsReturnCode"     -> ScreepsReturnCode
      [] alias = "CreepActionReturnCode" -> CreepActionReturnCode
      [] alias = "CreepMoveReturnCode"   -> CreepMoveReturnCode

\* A literal type is the set holding its one value; a union is the union of
\* its members' values.
CodeValues(names) == { ReturnCodeType[n] : n \in names }

-----------------------------------------------------------------------------
(* Structure constants: index.d.ts 2581-2629.                              *)

STRUCTURE_EXTENSION    == "extension"
STRUCTURE_RAMPART      == "rampart"
STRUCTURE_ROAD         == "road"
STRUCTURE_SPAWN        == "spawn"
STRUCTURE_LINK         == "link"
STRUCTURE_WALL         == "constructedWall"
STRUCTURE_KEEPER_LAIR  == "keeperLair"
STRUCTURE_CONTROLLER   == "controller"
STRUCTURE_STORAGE      == "storage"
STRUCTURE_TOWER        == "tower"
STRUCTURE_OBSERVER     == "observer"
STRUCTURE_POWER_BANK   == "powerBank"
STRUCTURE_POWER_SPAWN  == "powerSpawn"
STRUCTURE_EXTRACTOR    == "extractor"
STRUCTURE_LAB          == "lab"
STRUCTURE_TERMINAL     == "terminal"
STRUCTURE_CONTAINER    == "container"
STRUCTURE_NUKER        == "nuker"
STRUCTURE_FACTORY      == "factory"
STRUCTURE_INVADER_CORE == "invaderCore"
STRUCTURE_PORTAL       == "portal"

\* lines 2583-2599
BuildableStructureConstant ==
    { STRUCTURE_EXTENSION, STRUCTURE_RAMPART, STRUCTURE_ROAD, STRUCTURE_SPAWN,
      STRUCTURE_LINK, STRUCTURE_WALL, STRUCTURE_STORAGE, STRUCTURE_TOWER,
      STRUCTURE_OBSERVER, STRUCTURE_POWER_SPAWN, STRUCTURE_EXTRACTOR,
      STRUCTURE_LAB, STRUCTURE_TERMINAL, STRUCTURE_CONTAINER, STRUCTURE_NUKER,
      STRUCTURE_FACTORY }

\* lines 2601-2607
StructureConstant ==
    BuildableStructureConstant \cup
    { STRUCTURE_KEEPER_LAIR, STRUCTURE_CONTROLLER, STRUCTURE_POWER_BANK,
      STRUCTURE_PORTAL, STRUCTURE_INVADER_CORE }

(* The heads of the structure interfaces,                                  *)
(*   interface StructureX extends OwnedStructure<T> | Structure<T>,        *)
(* index.d.ts 5417-6612 (structure.ts 95-859; StructureSpawn is declared   *)
(* in index.d.ts only).  structureType: T is inherited from Structure<T>   *)
(* (line 5784), through OwnedStructure<T> extends Structure<T> (5817).     *)
StructureInterfaces ==
    { [name |-> "StructureSpawn",       base |-> "OwnedStructure", T |-> STRUCTURE_SPAWN],
      [name |-> "StructureController",  base |-> "OwnedStructure", T |-> STRUCTURE_CONTROLLER],
      [name |-> "StructureExtension",   base |-> "OwnedStructure", T |-> STRUCTURE_EXTENSION],
      [name |-> "StructureLink",        base |-> "OwnedStructure", T |-> STRUCTURE_LINK],
      [name |-> "StructureKeeperLair",  base |-> "OwnedStructure", T |-> STRUCTURE_KEEPER_LAIR],
      [name |-> "StructureObserver",    base |-> "OwnedStructure", T |-> STRUCTURE_OBSERVER],
      [name |-> "StructurePowerBank",   base |-> "OwnedStructure", T |-> STRUCTURE_POWER_BANK],
      [name |-> "StructurePowerSpawn",  base |-> "OwnedStructure", T |-> STRUCTURE_POWER_SPAWN],
      [name |-> "StructureRampart",     base |-> "OwnedStructure", T |-> STRUCTURE_RAMPART],
      [name |-> "StructureRoad",        base |-> "Structure",      T |-> STRUCTURE_ROAD],
      [name |-> "StructureStorage",     base |-> "OwnedStructure", T |-> STRUCTURE_STORAGE],
      [name |-> "StructureTower",       base |-> "OwnedStructure", T |-> STRUCTURE_TOWER],
      [name |-> "StructureWall",        base |-> "Structure",      T |-> STRUCTURE_WALL],
      [name |-> "StructureExtractor",   base |-> "OwnedStructure", T |-> STRUCTURE_EXTRACTOR],
      [name |-> "StructureLab",         base |-> "OwnedStructure", T |-> STRUCTURE_LAB],
      [name |-> "StructureTerminal",    base |-> "OwnedStructure", T |-> STRUCTURE_TERMINAL],
      [name |-> "StructureContainer",   base |-> "Structure",      T |-> STRUCTURE_CONTAINER],
      [name |-> "StructureNuker",       base |-> "OwnedStructure", T |-> STRUCTURE_NUKER],
      [name |-> "StructurePortal",      base |-> "Structure",      T |-> STRUCTURE_PORTAL],
      [name |-> "StructureFactory",     base |-> "OwnedStructure", T |-> STRUCTURE_FACTORY],
      [name |-> "StructureInvaderCore", base |-> "OwnedStructure", T |-> STRUCTURE_INVADER_CORE] }

\* The structureType tags an interface is declared with (a set: an
\* interface name that is not declared has none).
StructureTypeOf(iface) == { i.T : i \in { j \in StructureInterfaces : j.name = iface } }

\* type AnyOwnedStructure = ... (index.d.ts 6637-6654)
AnyOwnedStructure ==
    { "StructureController", "StructureExtension", "StructureExtractor",
      "StructureFactory", "StructureInvaderCore", "StructureKeeperLair",
      "StructureLab", "StructureLink", "StructureNuker", "StructureObserver",
      "StructurePowerBank", "StructurePowerSpawn", "StructureRampart",
      "StructureSpawn", "StructureStorage", "StructureTerminal",
      "StructureTower" }

AnyStructure_NoWall ==
    AnyOwnedStructure \cup { "StructureContainer", "StructurePortal", "StructureRoad" }

\* type AnyStructure = AnyOwnedStructure | StructureContainer | StructurePortal
\*                   | StructureRoad | StructureWall   (index.d.ts 6672)
AnyStructure ==
    AnyOwnedStructure \cup
    { "StructureContainer", "StructurePortal", "StructureRoad", "StructureWall" }

ConcreteStructureMap_RampartAsRoad ==
    { <<STRUCTURE_EXTENSION, "StructureExtension">>,
      <<STRUCTURE_RAMPART, "StructureRoad">>,
      <<STRUCTURE_ROAD, "StructureRoad">>,
      <<STRUCTURE_SPAWN, "StructureSpawn">>,
      <<STRUCTURE_LINK, "StructureLink">>,
      <<STRUCTURE_WALL, "StructureWall">>,
      <<STRUCTURE_STORAGE, "StructureStorage">>,
      <<STRUCTURE_TOWER, "StructureTower">>,
      <<STRUCTURE_OBSERVER, "StructureObserver">>,
      <<STRUCTURE_POWER_SPAWN, "StructurePowerSpawn">>,
      <<STRUCTURE_EXTRACTOR, "StructureExtractor">>,
      <<STRUCTURE_LAB, "StructureLab">>,
      <<STRUCTURE_TERMINAL, "StructureTerminal">>,
      <<STRUCTURE_CONTAINER, "StructureContainer">>,
      <<STRUCTURE_NUKER, "StructureNuker">>,
      <<STRUCTURE_FACTORY, "StructureFactory">>,
      <<STRUCTURE_KEEPER_LAIR, "StructureKeeperLair">>,
      <<STRUCTURE_CONTROLLER, "StructureController">>,
      <<STRUCTURE_POWER_BANK, "StructurePowerBank">>,
      <<STRUCTURE_PORTAL, "StructurePortal">>,
      <<STRUCTURE_INVADER_CORE, "StructureInvaderCore">> }

\* interface ConcreteStructureMap { [STRUCTURE_EXTENSION]: StructureExtension; ... }
\* (index.d.ts 6677-6699): its properties, as <<key, interface>> pairs.
ConcreteStructureMap ==
    { <<STRUCTURE_EXTENSION, "StructureExtension">>,
      <<STRUCTURE_RAMPART, "StructureRampart">>,
      <<STRUCTURE_ROAD, "StructureRoad">>,
      <<STRUCTURE_SPAWN, "StructureSpawn">>,
      <<STRUCTURE_LINK, "StructureLink">>,
      <<STRUCTURE_WALL, "StructureWall">>,
      <<STRUCTURE_STORAGE, "StructureStorage">>,
      <<STRUCTURE_TOWER, "StructureTower">>,
      <<STRUCTURE_OBSERVER, "StructureObserver">>,
      <<STRUCTURE_POWER_SPAWN, "StructurePowerSpawn">>,
      <<STRUCTURE_EXTRACTOR, "StructureExtractor">>,
      <<STRUCTURE_LAB, "StructureLab">>,
      <<STRUCTURE_TERMINAL, "StructureTerminal">>,
      <<STRUCTURE_CONTAINER, "StructureContainer">>,
      <<STRUCTURE_NUKER, "StructureNuker">>,
      <<STRUCTURE_FACTORY, "StructureFactory">>,
      <<STRUCTURE_KEEPER_LAIR, "StructureKeeperLair">>,
      <<STRUCTURE_CONTROLLER, "StructureController">>,
      <<STRUCTURE_POWER_BANK, "StructurePowerBank">>,
      <<STRUCTURE_PORTAL, "StructurePortal">>,
      <<STRUCTURE_INVADER_CORE, "StructureInvaderCore">> }

\* type ConcreteStructure<T extends StructureConstant> = ConcreteStructureMap[T]
\* (index.d.ts 6706): the property types under the key T.
ConcreteStructure(T) == { e[2] : e \in { p \in ConcreteStructureMap : p[1] = T } }

-----------------------------------------------------------------------------
(* Methods whose documentation lists result codes: index.d.ts 1065-6602.   *)
(* id is Interface.method:line of the (first) signature.  overloads holds  *)
(* the declared return type of each overload the documentation comment     *)
(* heads, as a sequence of unions to intersect (A & (B | C) is             *)
(* <<{A}, {B, C}>>; a plain union is a sequence of one) whose atoms are    *)
(* result-code literal types, the named unions, or "number", "string",     *)
(* "undefined", "ExitConstant", "object" (any array or object type).       *)
(* doc holds the codes the comment lists.                                  *)
DocumentedMethods ==
    {
      [ id |-> "ConstructionSite.remove:1069",
        overloads |-> { <<{"number"}>> },
        doc |-> {"OK", "ERR_NOT_OWNER"},
        throws |-> {} ],
      [ id |-> "Creep.attack:1202",
        overloads |-> { <<{"CreepActionReturnCode"}>> },
        doc |-> {"OK", "ERR_NOT_OWNER", "ERR_BUSY", "ERR_INVALID_TARGET", "ERR_NOT_IN_RANGE", "ERR_NO_BODYPART"},
        throws |-> {} ],
      [ id |-> "Creep.attackController:1220",
        overloads |-> { <<{"CreepActionReturnCode"}>> },
        doc |-> {"OK", "ERR_NOT_OWNER", "ERR_BUSY", "ERR_INVALID_TARGET", "ERR_NOT_IN_RANGE", "ERR_TIRED", "ERR_NO_BODYPART"},
        throws |-> {} ],
      [ id |-> "Creep.build:1237",
        overloads |-> { <<{"CreepActionReturnCode", "ERR_NOT_ENOUGH_RESOURCES", "ERR_RCL_NOT_ENOUGH"}>> },
        doc |-> {"OK", "ERR_NOT_OWNER", "ERR_BUSY", "ERR_NOT_ENOUGH_RESOURCES", "ERR_INVALID_TARGET", "ERR_NOT_IN_RANGE", "ERR_NO_BODYPART"},
        throws |-> {} ],
      [ id |-> "Creep.cancelOrder:1245",
        overloads |-> { <<{"OK", "ERR_NOT_FOUND"}>> },
        doc |-> {"OK", "ERR_NOT_FOUND"},
        throws |-> {} ],
      [ id |-> "Creep.claimController:1265",
        overloads |-> { <<{"CreepActionReturnCode", "ERR_FULL", "ERR_GCL_NOT_ENOUGH"}>> },
        doc |-> {"OK", "ERR_NOT_OWNER", "ERR_BUSY", "ERR_INVALID_TARGET", "ERR_FULL", "ERR_NOT_IN_RANGE", "ERR_NO_BODYPART", "ERR_GCL_NOT_ENOUGH"},
        throws |-> {} ],
      [ id |-> "Creep.dismantle:1281",
        overloads |-> { <<{"CreepActionReturnCode"}>> },
        doc |-> {"OK", "ERR_NOT_OWNER", "ERR_BUSY", "ERR_INVALID_TARGET", "ERR_NOT_IN_RANGE", "ERR_NO_BODYPART"},
        throws |-> {} ],
      [ id |-> "Creep.drop:1294",
        overloads |-> { <<{"OK", "ERR_NOT_OWNER", "ERR_BUSY", "ERR_NOT_ENOUGH_RESOURCES"}>> },
        doc |-> {"OK", "ERR_NOT_OWNER", "ERR_BUSY", "ERR_NOT_ENOUGH_RESOURCES", "ERR_INVALID_ARGS"},
        throws |-> {} ],
      [ id |-> "Creep.generateSafeMode:1308",
        overloads |-> { <<{"CreepActionReturnCode"}>> },
        doc |-> {"OK", "ERR_NOT_OWNER", "ERR_BUSY", "ERR_NOT_ENOUGH_RESOURCES", "ERR_INVALID_TARGET", "ERR_NOT_IN_RANGE"},
        throws |-> {} ],
      [ id |-> "Creep.harvest:1336",
        overloads |-> { <<{"CreepActionReturnCode", "ERR_NOT_FOUND", "ERR_NOT_ENOUGH_RESOURCES"}>> },
        doc |-> {"OK", "ERR_NOT_OWNER", "ERR_BUSY", "ERR_NOT_FOUND", "ERR_NOT_ENOUGH_RESOURCES", "ERR_INVALID_TARGET", "ERR_NOT_IN_RANGE", "ERR_TIRED", "ERR_NO_BODYPART"},
        throws |-> {} ],
      [ id |-> "Creep.heal:1354",
        overloads |-> { <<{"CreepActionReturnCode"}>> },
        doc |-> {"OK", "ERR_NOT_OWNER", "ERR_BUSY", "ERR_INVALID_TARGET", "ERR_NOT_IN_RANGE", "ERR_NO_BODYPART"},
        throws |-> {} ],
      [ id |-> "Creep.move:1370",
        overloads |-> { <<{"CreepMoveReturnCode"}>>,
                       <<{"OK", "ERR_NOT_OWNER", "ERR_BUSY", "ERR_NOT_IN_RANGE", "ERR_INVALID_ARGS"}>> },
        doc |-> {"OK", "ERR_NOT_OWNER", "ERR_BUSY", "ERR_NOT_IN_RANGE", "ERR_INVALID_ARGS", "ERR_TIRED", "ERR_NO_BODYPART"},
        throws |-> {} ],
      [ id |-> "Creep.notifyWhenAttacked:1414",
        overloads |-> { <<{"OK", "ERR_NOT_OWNER", "ERR_BUSY", "ERR_INVALID_ARGS"}>> },
        doc |-> {"OK", "ERR_NOT_OWNER", "ERR_BUSY", "ERR_INVALID_ARGS"},
        throws |-> {} ],
      [ id |-> "Creep.pickup:1430",
        overloads |-> { <<{"CreepActionReturnCode", "ERR_FULL"}>> },
        doc |-> {"OK", "ERR_NOT_OWNER", "ERR_BUSY", "ERR_INVALID_TARGET", "ERR_FULL", "ERR_NOT_IN_RANGE", "ERR_NO_BODYPART"},
        throws |-> {} ],
      [ id |-> "Creep.pull:1447",
        overloads |-> { <<{"OK", "ERR_NOT_OWNER", "ERR_BUSY", "ERR_INVALID_TARGET", "ERR_NOT_IN_RANGE", "ERR_NO_BODYPART"}>> },
        doc |-> {"OK", "ERR_NOT_OWNER", "ERR_BUSY", "ERR_INVALID_TARGET", "ERR_NOT_IN_RANGE", "ERR_NO_BODYPART"},
        throws |-> {} ],
      [ id |-> "Creep.rangedAttack:1464",
        overloads |-> { <<{"CreepActionReturnCode"}>> },
        doc |-> {"OK", "ERR_NOT_OWNER", "ERR_BUSY", "ERR_INVALID_TARGET", "ERR_NOT_IN_RANGE", "ERR_NO_BODYPART"},
        throws |-> {} ],
      [ id |-> "Creep.rangedHeal:1480",
        overloads |-> { <<{"CreepActionReturnCode"}>> },
        doc |-> {"OK", "ERR_NOT_OWNER", "ERR_BUSY", "ERR_INVALID_TARGET", "ERR_NOT_IN_RANGE", "ERR_NO_BODYPART"},
        throws |-> {} ],
      [ id |-> "Creep.rangedMassAttack:1493",
        overloads |-> { <<{"OK", "ERR_NOT_OWNER", "ERR_BUSY", "ERR_NO_BODYPART"}>> },
        doc |-> {"OK", "ERR_NOT_OWNER", "ERR_BUSY", "ERR_NO_BODYPART"},
        throws |-> {} ],
      [ id |-> "Creep.repair:1506",
        overloads |-> { <<{"CreepActionReturnCode", "ERR_NOT_ENOUGH_RESOURCES"}>> },
        doc |-> {"OK", "ERR_NOT_OWNER", "ERR_BUSY", "ERR_NOT_ENOUGH_RESOURCES", "ERR_INVALID_TARGET", "ERR_NOT_IN_RANGE", "ERR_NO_BODYPART"},
        throws |-> {} ],
      [ id |-> "Creep.reserveController:1524",
        overloads |-> { <<{"CreepActionReturnCode"}>> },
        doc |-> {"OK", "ERR_NOT_OWNER", "ERR_BUSY", "ERR_INVALID_TARGET", "ERR_NOT_IN_RANGE", "ERR_NO_BODYPART"},
        throws |-> {} ],
      [ id |-> "Creep.say:1538",
        overloads |-> { <<{"OK", "ERR_NOT_OWNER", "ERR_BUSY"}>> },
        doc |-> {"OK", "ERR_NOT_OWNER", "ERR_BUSY"},
        throws |-> {} ],
      [ id |-> "Creep.signController:1554",
        overloads |-> { <<{"OK", "ERR_BUSY", "ERR_INVALID_TARGET", "ERR_NOT_IN_RANGE"}>> },
        doc |-> {"OK", "ERR_BUSY", "ERR_INVALID_TARGET", "ERR_NOT_IN_RANGE"},
        throws |-> {} ],
      [ id |-> "Creep.suicide:1563",
        overloads |-> { <<{"OK", "ERR_NOT_OWNER", "ERR_BUSY"}>> },
        doc |-> {"OK", "ERR_NOT_OWNER", "ERR_BUSY"},
        throws |-> {} ],
      [ id |-> "Creep.transfer:1581",
        overloads |-> { <<{"ScreepsReturnCode"}>> },
        doc |-> {"OK", "ERR_NOT_OWNER", "ERR_BUSY", "ERR_NOT_ENOUGH_RESOURCES", "ERR_INVALID_TARGET", "ERR_FULL", "ERR_NOT_IN_RANGE", "ERR_INVALID_ARGS"},
        throws |-> {} ],
      [ id |-> "Creep.upgradeController:1603",
        overloads |-> { <<{"ScreepsReturnCode"}>> },
        doc |-> {"OK", "ERR_NOT_OWNER", "ERR_BUSY", "ERR_NOT_ENOUGH_RESOURCES", "ERR_INVALID_TARGET", "ERR_NOT_IN_RANGE", "ERR_NO_BODYPART"},
        throws |-> {} ],
      [ id |-> "Creep.withdraw:1626",
        overloads |-> { <<{"ScreepsReturnCode"}>> },
        doc |-> {"OK", "ERR_NOT_OWNER", "ERR_BUSY", "ERR_NOT_ENOUGH_RESOURCES", "ERR_INVALID_TARGET", "ERR_FULL", "ERR_NOT_IN_RANGE", "ERR_INVALID_ARGS"},
        throws |-> {} ],
      [ id |-> "Flag.remove:1710",
        overloads |-> { <<{"OK"}>> },
        doc |-> {"OK"},
        throws |-> {} ],
      [ id |-> "Flag.setColor:1719",
        overloads |-> { <<{"OK", "ERR_INVALID_ARGS"}>> },
        doc |-> {"OK", "ERR_INVALID_ARGS"},
        throws |-> {} ],
      [ id |-> "Flag.setPosition:1728",
        overloads |-> { <<{"OK", "ERR_INVALID_ARGS"}>> },
        doc |-> {"OK", "ERR_INVALID_TARGET"},
        throws |-> {} ],
      [ id |-> "Flag.setPosition:1736",
        overloads |-> { <<{"OK", "ERR_INVALID_ARGS"}>> },
        doc |-> {"OK", "ERR_INVALID_TARGET"},
        throws |-> {} ],
      [ id |-> "Game.notify:1844",
        overloads |-> { <<{"OK", "ERR_FULL"}>> },
        doc |-> {"OK", "ERR_FULL"},
        throws |-> {} ],
      [ id |-> "CPU.setShardLimits:1953",
        overloads |-> { <<{"OK", "ERR_BUSY", "ERR_INVALID_ARGS"}>> },
        doc |-> {"OK", "ERR_BUSY", "ERR_INVALID_ARGS"},
        throws |-> {} ],
      [ id |-> "CPU.generatePixel:1982",
        overloads |-> { <<{"OK", "ERR_NOT_ENOUGH_RESOURCES"}>> },
        doc |-> {"OK", "ERR_NOT_ENOUGH_RESOURCES"},
        throws |-> {} ],
      [ id |-> "CPU.unlock:1994",
        overloads |-> { <<{"OK", "ERR_NOT_ENOUGH_RESOURCES", "ERR_FULL"}>> },
        doc |-> {"OK", "ERR_NOT_ENOUGH_RESOURCES", "ERR_FULL"},
        throws |-> {} ],
      [ id |-> "GameMap.findExit:3116",
        overloads |-> { <<{"ExitConstant", "ERR_NO_PATH", "ERR_INVALID_ARGS"}>> },
        doc |-> {"ERR_NO_PATH", "ERR_INVALID_ARGS"},
        throws |-> {} ],
      [ id |-> "Market.cancelOrder:3446",
        overloads |-> { <<{"ScreepsReturnCode"}>> },
        doc |-> {"OK", "ERR_INVALID_ARGS"},
        throws |-> {} ],
      [ id |-> "Market.changeOrderPrice:3459",
        overloads |-> { <<{"ScreepsReturnCode"}>> },
        doc |-> {"OK", "ERR_NOT_OWNER", "ERR_NOT_ENOUGH_RESOURCES", "ERR_INVALID_ARGS"},
        throws |-> {} ],
      [ id |-> "Market.createOrder:3478",
        overloads |-> { <<{"ScreepsReturnCode"}>> },
        doc |-> {"OK", "ERR_NOT_OWNER", "ERR_NOT_ENOUGH_RESOURCES", "ERR_FULL", "ERR_INVALID_ARGS"},
        throws |-> {} ],
      [ id |-> "Market.deal:3502",
        overloads |-> { <<{"ScreepsReturnCode"}>> },
        doc |-> {"OK", "ERR_NOT_OWNER", "ERR_NOT_ENOUGH_RESOURCES", "ERR_FULL", "ERR_INVALID_ARGS", "ERR_TIRED"},
        throws |-> {} ],
      [ id |-> "Market.extendOrder:3516",
        overloads |-> { <<{"ScreepsReturnCode"}>> },
        doc |-> {"OK", "ERR_NOT_ENOUGH_RESOURCES", "ERR_INVALID_ARGS"},
        throws |-> {} ],
      [ id |-> "PowerCreep.cancelOrder:4034",
        overloads |-> { <<{"OK", "ERR_NOT_OWNER", "ERR_BUSY", "ERR_NOT_FOUND"}>> },
        doc |-> {"OK", "ERR_NOT_OWNER", "ERR_BUSY", "ERR_NOT_FOUND"},
        throws |-> {} ],
      [ id |-> "PowerCreep.delete:4046",
        overloads |-> { <<{"OK", "ERR_NOT_OWNER", "ERR_BUSY"}>> },
        doc |-> {"OK", "ERR_NOT_OWNER", "ERR_BUSY"},
        throws |-> {} ],
      [ id |-> "PowerCreep.drop:4058",
        overloads |-> { <<{"OK", "ERR_NOT_OWNER", "ERR_BUSY", "ERR_NOT_ENOUGH_RESOURCES"}>> },
        doc |-> {"OK", "ERR_NOT_OWNER", "ERR_BUSY", "ERR_NOT_ENOUGH_RESOURCES", "ERR_INVALID_ARGS"},
        throws |-> {} ],
      [ id |-> "PowerCreep.enableRoom:4070",
        overloads |-> { <<{"OK", "ERR_NOT_OWNER", "ERR_INVALID_TARGET", "ERR_NOT_IN_RANGE"}>> },
        doc |-> {"OK", "ERR_NOT_OWNER", "ERR_INVALID_TARGET", "ERR_NOT_IN_RANGE"},
        throws |-> {} ],
      [ id |-> "PowerCreep.move:4083",
        overloads |-> { <<{"CreepMoveReturnCode"}>>,
                       <<{"OK", "ERR_NOT_OWNER", "ERR_BUSY", "ERR_NOT_IN_RANGE", "ERR_INVALID_ARGS"}>> },
        doc |-> {"OK", "ERR_NOT_OWNER", "ERR_BUSY", "ERR_NOT_IN_RANGE", "ERR_INVALID_ARGS"},
        throws |-> {} ],
      [ id |-> "PowerCreep.moveByPath:4097",
        overloads |-> { <<{"CreepMoveReturnCode", "ERR_NOT_FOUND", "ERR_INVALID_ARGS"}>> },
        doc |-> {"OK", "ERR_NOT_OWNER", "ERR_BUSY", "ERR_NOT_FOUND", "ERR_INVALID_ARGS"},
        throws |-> {} ],
      [ id |-> "PowerCreep.moveTo:4116",
        overloads |-> { <<{"OK", "ERR_NOT_OWNER", "ERR_NO_PATH", "ERR_BUSY", "ERR_NOT_FOUND", "ERR_INVALID_TARGET"}>>,
                       <<{"CreepMoveReturnCode", "ERR_NO_PATH", "ERR_INVALID_TARGET", "ERR_NOT_FOUND"}>> },
        doc |-> {"OK", "ERR_NOT_OWNER", "ERR_NO_PATH", "ERR_BUSY", "ERR_NOT_FOUND", "ERR_INVALID_TARGET"},
        throws |-> {} ],
      [ id |-> "PowerCreep.notifyWhenAttacked:4132",
        overloads |-> { <<{"OK", "ERR_NOT_OWNER", "ERR_BUSY", "ERR_INVALID_ARGS"}>> },
        doc |-> {"OK", "ERR_NOT_OWNER", "ERR_BUSY", "ERR_INVALID_ARGS"},
        throws |-> {} ],
      [ id |-> "PowerCreep.pickup:4146",
        overloads |-> { <<{"CreepActionReturnCode", "ERR_FULL"}>> },
        doc |-> {"OK", "ERR_NOT_OWNER", "ERR_BUSY", "ERR_INVALID_TARGET", "ERR_FULL", "ERR_NOT_IN_RANGE"},
        throws |-> {} ],
      [ id |-> "PowerCreep.rename:4157",
        overloads |-> { <<{"OK", "ERR_NOT_OWNER", "ERR_NAME_EXISTS", "ERR_BUSY"}>> },
        doc |-> {"OK", "ERR_NOT_OWNER", "ERR_NAME_EXISTS", "ERR_BUSY"},
        throws |-> {} ],
      [ id |-> "PowerCreep.renew:4170",
        overloads |-> { <<{"OK", "ERR_NOT_OWNER", "ERR_BUSY", "ERR_INVALID_TARGET", "ERR_NOT_IN_RANGE"}>> },
        doc |-> {"OK", "ERR_NOT_OWNER", "ERR_BUSY", "ERR_INVALID_TARGET", "ERR_NOT_IN_RANGE"},
        throws |-> {} ],
      [ id |-> "PowerCreep.say:4184",
        overloads |-> { <<{"OK", "ERR_NOT_OWNER", "ERR_BUSY"}>> },
        doc |-> {"OK", "ERR_NOT_OWNER", "ERR_BUSY"},
        throws |-> {} ],
      [ id |-> "PowerCreep.spawn:4196",
        overloads |-> { <<{"OK", "ERR_NOT_OWNER", "ERR_BUSY", "ERR_INVALID_TARGET", "ERR_TIRED", "ERR_RCL_NOT_ENOUGH"}>> },
        doc |-> {"OK", "ERR_NOT_OWNER", "ERR_BUSY", "ERR_INVALID_TARGET", "ERR_TIRED", "ERR_RCL_NOT_ENOUGH"},
        throws |-> {} ],
      [ id |-> "PowerCreep.suicide:4206",
        overloads |-> { <<{"OK", "ERR_NOT_OWNER", "ERR_BUSY"}>> },
        doc |-> {"OK", "ERR_NOT_OWNER", "ERR_BUSY"},
        throws |-> {} ],
      [ id |-> "PowerCreep.transfer:4224",
        overloads |-> { <<{"ScreepsReturnCode"}>> },
        doc |-> {"OK", "ERR_NOT_OWNER", "ERR_BUSY", "ERR_NOT_ENOUGH_RESOURCES", "ERR_INVALID_TARGET", "ERR_FULL", "ERR_NOT_IN_RANGE", "ERR_INVALID_ARGS"},
        throws |-> {} ],
      [ id |-> "PowerCreep.upgrade:4237",
        overloads |-> { <<{"OK", "ERR_NOT_OWNER", "ERR_NOT_ENOUGH_RESOURCES", "ERR_FULL", "ERR_INVALID_ARGS"}>> },
        doc |-> {"OK", "ERR_NOT_OWNER", "ERR_NOT_ENOUGH_RESOURCES", "ERR_FULL", "ERR_INVALID_ARGS"},
        throws |-> {} ],
      [ id |-> "PowerCreep.usePower:4255",
        overloads |-> { <<{"ScreepsReturnCode"}>> },
        doc |-> {"OK", "ERR_NOT_OWNER", "ERR_BUSY", "ERR_NOT_ENOUGH_RESOURCES", "ERR_INVALID_TARGET", "ERR_FULL", "ERR_NOT_IN_RANGE", "ERR_INVALID_ARGS", "ERR_TIRED", "ERR_NO_BODYPART"},
        throws |-> {} ],
      [ id |-> "PowerCreep.withdraw:4277",
        overloads |-> { <<{"ScreepsReturnCode"}>> },
        doc |-> {"OK", "ERR_NOT_OWNER", "ERR_BUSY", "ERR_NOT_ENOUGH_RESOURCES", "ERR_INVALID_TARGET", "ERR_FULL", "ERR_NOT_IN_RANGE", "ERR_INVALID_ARGS"},
        throws |-> {} ],
      [ id |-> "RoomPosition.createConstructionSite:4549",
        overloads |-> { <<{"ScreepsReturnCode"}>> },
        doc |-> {"OK", "ERR_NOT_OWNER", "ERR_INVALID_TARGET", "ERR_FULL", "ERR_INVALID_ARGS", "ERR_RCL_NOT_ENOUGH"},
        throws |-> {} ],
      [ id |-> "RoomPosition.createConstructionSite:4562",
        overloads |-> { <<{"ScreepsReturnCode"}>> },
        doc |-> {"OK", "ERR_NOT_OWNER", "ERR_INVALID_TARGET", "ERR_FULL", "ERR_INVALID_ARGS", "ERR_RCL_NOT_ENOUGH"},
        throws |-> {} ],
      [ id |-> "RoomPosition.createFlag:4572",
        overloads |-> { <<{"ERR_NAME_EXISTS", "ERR_INVALID_ARGS", "string"}>> },
        doc |-> {"ERR_NAME_EXISTS", "ERR_INVALID_ARGS"},
        throws |-> {} ],
      [ id |-> "Room.createConstructionSite:5096",
        overloads |-> { <<{"ScreepsReturnCode"}>> },
        doc |-> {"OK", "ERR_NOT_OWNER", "ERR_INVALID_TARGET", "ERR_FULL", "ERR_INVALID_ARGS", "ERR_RCL_NOT_ENOUGH"},
        throws |-> {} ],
      [ id |-> "Room.createConstructionSite:5109",
        overloads |-> { <<{"ScreepsReturnCode"}>> },
        doc |-> {"OK", "ERR_NOT_OWNER", "ERR_INVALID_TARGET", "ERR_FULL", "ERR_INVALID_ARGS", "ERR_RCL_NOT_ENOUGH"},
        throws |-> {} ],
      [ id |-> "Room.createConstructionSite:5123",
        overloads |-> { <<{"ScreepsReturnCode"}>> },
        doc |-> {"OK", "ERR_NOT_OWNER", "ERR_INVALID_TARGET", "ERR_FULL", "ERR_INVALID_ARGS", "ERR_RCL_NOT_ENOUGH"},
        throws |-> {} ],
      [ id |-> "Room.createConstructionSite:5136",
        overloads |-> { <<{"ScreepsReturnCode"}>> },
        doc |-> {"OK", "ERR_NOT_OWNER", "ERR_INVALID_TARGET", "ERR_FULL", "ERR_INVALID_ARGS", "ERR_RCL_NOT_ENOUGH"},
        throws |-> {} ],
      [ id |-> "Room.createFlag:5155",
        overloads |-> { <<{"ERR_NAME_EXISTS", "ERR_INVALID_ARGS", "string"}>> },
        doc |-> {"ERR_NAME_EXISTS", "ERR_FULL", "ERR_INVALID_ARGS"},
        throws |-> {} ],
      [ id |-> "Room.createFlag:5179",
        overloads |-> { <<{"ERR_NAME_EXISTS", "ERR_INVALID_ARGS", "string"}>> },
        doc |-> {"ERR_NAME_EXISTS", "ERR_FULL", "ERR_INVALID_ARGS"},
        throws |-> {} ],
      [ id |-> "Room.findExitTo:5202",
        overloads |-> { <<{"ExitConstant", "ERR_NO_PATH", "ERR_INVALID_ARGS"}>> },
        doc |-> {"ERR_NO_PATH", "ERR_INVALID_ARGS"},
        throws |-> {} ],
      [ id |-> "StructureSpawn.canCreateCreep:5479",
        overloads |-> { <<{"ScreepsReturnCode"}>> },
        doc |-> {"OK", "ERR_NOT_OWNER", "ERR_NAME_EXISTS", "ERR_BUSY", "ERR_NOT_ENOUGH_ENERGY", "ERR_INVALID_ARGS", "ERR_RCL_NOT_ENOUGH"},
        throws |-> {} ],
      [ id |-> "StructureSpawn.createCreep:5507",
        overloads |-> { <<{"ScreepsReturnCode", "string"}>> },
        doc |-> {"ERR_NOT_OWNER", "ERR_NAME_EXISTS", "ERR_BUSY", "ERR_NOT_ENOUGH_ENERGY", "ERR_INVALID_ARGS", "ERR_RCL_NOT_ENOUGH"},
        throws |-> {} ],
      [ id |-> "StructureSpawn.spawnCreep:5531",
        overloads |-> { <<{"ScreepsReturnCode"}>> },
        doc |-> {"OK", "ERR_NOT_OWNER", "ERR_NAME_EXISTS", "ERR_BUSY", "ERR_NOT_ENOUGH_ENERGY", "ERR_INVALID_ARGS", "ERR_RCL_NOT_ENOUGH"},
        throws |-> {} ],
      [ id |-> "StructureSpawn.renewCreep:5553",
        overloads |-> { <<{"ScreepsReturnCode"}>> },
        doc |-> {"OK", "ERR_NOT_OWNER", "ERR_BUSY", "ERR_NOT_ENOUGH_ENERGY", "ERR_INVALID_TARGET", "ERR_FULL", "ERR_NOT_IN_RANGE", "ERR_RCL_NOT_ENOUGH"},
        throws |-> {} ],
      [ id |-> "StructureSpawn.recycleCreep:5567",
        overloads |-> { <<{"ScreepsReturnCode"}>> },
        doc |-> {"OK", "ERR_NOT_OWNER", "ERR_INVALID_TARGET", "ERR_NOT_IN_RANGE", "ERR_RCL_NOT_ENOUGH"},
        throws |-> {} ],
      [ id |-> "Spawning.cancel:5616",
        overloads |-> { <<{"ScreepsReturnCode"}, {"OK", "ERR_NOT_OWNER"}>> },
        doc |-> {"OK", "ERR_NOT_OWNER"},
        throws |-> {} ],
      [ id |-> "Spawning.setDirections:5627",
        overloads |-> { <<{"ScreepsReturnCode"}, {"OK", "ERR_NOT_OWNER", "ERR_INVALID_ARGS"}>> },
        doc |-> {"OK", "ERR_NOT_OWNER", "ERR_INVALID_ARGS"},
        throws |-> {} ],
      [ id |-> "Structure.destroy:5792",
        overloads |-> { <<{"ScreepsReturnCode"}>> },
        doc |-> {"OK", "ERR_NOT_OWNER", "ERR_BUSY"},
        throws |-> {} ],
      [ id |-> "Structure.notifyWhenAttacked:5805",
        overloads |-> { <<{"ScreepsReturnCode"}>> },
        doc |-> {"OK", "ERR_NOT_OWNER", "ERR_INVALID_ARGS"},
        throws |-> {} ],
      [ id |-> "StructureController.activateSafeMode:5910",
        overloads |-> { <<{"ScreepsReturnCode"}>> },
        doc |-> {"OK", "ERR_NOT_OWNER", "ERR_BUSY", "ERR_NOT_ENOUGH_RESOURCES", "ERR_TIRED"},
        throws |-> {} ],
      [ id |-> "StructureController.unclaim:5917",
        overloads |-> { <<{"ScreepsReturnCode"}>> },
        doc |-> {"OK", "ERR_NOT_OWNER"},
        throws |-> {} ],
      [ id |-> "StructureLink.transferEnergy:5998",
        overloads |-> { <<{"ScreepsReturnCode"}>> },
        doc |-> {"OK", "ERR_NOT_OWNER", "ERR_NOT_ENOUGH_RESOURCES", "ERR_INVALID_TARGET", "ERR_FULL", "ERR_NOT_IN_RANGE", "ERR_INVALID_ARGS", "ERR_TIRED", "ERR_RCL_NOT_ENOUGH"},
        throws |-> {} ],
      [ id |-> "StructureObserver.observeRoom:6042",
        overloads |-> { <<{"ScreepsReturnCode"}>> },
        doc |-> {"OK", "ERR_NOT_OWNER", "ERR_NOT_IN_RANGE", "ERR_INVALID_ARGS", "ERR_RCL_NOT_ENOUGH"},
        throws |-> {} ],
      [ id |-> "StructurePowerSpawn.processPower:6115",
        overloads |-> { <<{"ScreepsReturnCode"}>> },
        doc |-> {"OK", "ERR_NOT_OWNER", "ERR_NOT_ENOUGH_RESOURCES", "ERR_RCL_NOT_ENOUGH"},
        throws |-> {} ],
      [ id |-> "StructureRampart.setPublic:6151",
        overloads |-> { <<{"undefined"}>> },
        doc |-> {"OK", "ERR_NOT_OWNER"},
        throws |-> {} ],
      [ id |-> "StructureTower.attack:6235",
        overloads |-> { <<{"ScreepsReturnCode"}>> },
        doc |-> {"OK", "ERR_NOT_OWNER", "ERR_NOT_ENOUGH_ENERGY", "ERR_INVALID_TARGET", "ERR_RCL_NOT_ENOUGH"},
        throws |-> {} ],
      [ id |-> "StructureTower.heal:6248",
        overloads |-> { <<{"ScreepsReturnCode"}>> },
        doc |-> {"OK", "ERR_NOT_OWNER", "ERR_NOT_ENOUGH_ENERGY", "ERR_INVALID_TARGET", "ERR_RCL_NOT_ENOUGH"},
        throws |-> {} ],
      [ id |-> "StructureTower.repair:6261",
        overloads |-> { <<{"ScreepsReturnCode"}>> },
        doc |-> {"OK", "ERR_NOT_OWNER", "ERR_NOT_ENOUGH_ENERGY", "ERR_INVALID_TARGET", "ERR_RCL_NOT_ENOUGH"},
        throws |-> {} ],
      [ id |-> "StructureLab.boostCreep:6355",
        overloads |-> { <<{"ScreepsReturnCode"}>> },
        doc |-> {"OK", "ERR_NOT_OWNER", "ERR_NOT_FOUND", "ERR_NOT_ENOUGH_RESOURCES", "ERR_INVALID_TARGET", "ERR_NOT_IN_RANGE", "ERR_RCL_NOT_ENOUGH"},
        throws |-> {} ],
      [ id |-> "StructureLab.unboostCreep:6372",
        overloads |-> { <<{"ScreepsReturnCode"}>> },
        doc |-> {"OK", "ERR_NOT_OWNER", "ERR_NOT_FOUND", "ERR_INVALID_TARGET", "ERR_NOT_IN_RANGE", "ERR_TIRED", "ERR_RCL_NOT_ENOUGH"},
        throws |-> {} ],
      [ id |-> "StructureLab.reverseReaction:6390",
        overloads |-> { <<{"ScreepsReturnCode"}>> },
        doc |-> {"OK", "ERR_NOT_OWNER", "ERR_NOT_ENOUGH_RESOURCES", "ERR_INVALID_TARGET", "ERR_FULL", "ERR_NOT_IN_RANGE", "ERR_INVALID_ARGS", "ERR_TIRED", "ERR_RCL_NOT_ENOUGH"},
        throws |-> {} ],
      [ id |-> "StructureLab.runReaction:6408",
        overloads |-> { <<{"ScreepsReturnCode"}>> },
        doc |-> {"OK", "ERR_NOT_OWNER", "ERR_NOT_ENOUGH_RESOURCES", "ERR_INVALID_TARGET", "ERR_FULL", "ERR_NOT_IN_RANGE", "ERR_INVALID_ARGS", "ERR_TIRED", "ERR_RCL_NOT_ENOUGH"},
        throws |-> {} ],
      [ id |-> "StructureTerminal.send:6446",
        overloads |-> { <<{"ScreepsReturnCode"}>> },
        doc |-> {"OK", "ERR_NOT_OWNER", "ERR_NOT_ENOUGH_RESOURCES", "ERR_INVALID_ARGS", "ERR_TIRED"},
        throws |-> {} ],
      [ id |-> "StructureNuker.launchNuke:6533",
        overloads |-> { <<{"ScreepsReturnCode"}>> },
        doc |-> {"OK", "ERR_NOT_OWNER", "ERR_NOT_ENOUGH_RESOURCES", "ERR_INVALID_TARGET", "ERR_NOT_IN_RANGE", "ERR_INVALID_ARGS", "ERR_TIRED", "ERR_RCL_NOT_ENOUGH"},
        throws |-> {} ],
      [ id |-> "StructureFactory.produce:6602",
        overloads |-> { <<{"ScreepsReturnCode"}>> },
        doc |-> {"OK", "ERR_NOT_OWNER", "ERR_BUSY", "ERR_NOT_ENOUGH_RESOURCES", "ERR_INVALID_TARGET", "ERR_FULL", "ERR_INVALID_ARGS", "ERR_TIRED", "ERR_RCL_NOT_ENOUGH"},
        throws |-> {} ] }

(* Operations documented with @throws (none of them lists result codes):   *)
(* throws names the inputs the comment says they throw on.                 *)
ThrowingOperations_SetReturnsCode ==
    { [ id |-> "InterShardMemory.setLocal:2350",
        overloads |-> { <<{"void"}>> },
        doc |-> {},
        throws |-> {"value_not_a_string", "value_longer_than_100x2014"} ],
      [ id |-> "InterShardMemory.getRemote:2357",
        overloads |-> { <<{"string", "null"}>> },
        doc |-> {},
        throws |-> {"invalid_shard_name"} ],
      [ id |-> "RawMemory.set:4360",
        overloads |-> { <<{"ScreepsReturnCode"}>> },
        doc |-> {},
        throws |-> {"value_not_a_string", "value_longer_than_2MiB"} ],
      [ id |-> "RawMemory.setActiveSegments:4371",
        overloads |-> { <<{"undefined"}>> },
        doc |-> {},
        throws |-> {"ids_not_an_array", "more_than_10_segments", "id_not_an_integer"} ],
      [ id |-> "RawMemory.setActiveForeignSegment:4385",
        overloads |-> { <<{"undefined"}>> },
        doc |-> {},
        throws |-> {"id_not_an_integer"} ],
      [ id |-> "RawMemory.setDefaultPublicSegment:4394",
        overloads |-> { <<{"undefined"}>> },
        doc |-> {},
        throws |-> {"id_not_an_integer"} ],
      [ id |-> "RawMemory.setPublicSegments:4403",
        overloads |-> { <<{"undefined"}>> },
        doc |-> {},
        throws |-> {"ids_not_an_array", "id_not_an_integer"} ],
      [ id |-> "RoomPositionConstructor.new:4736",
        overloads |-> { <<{"object"}>> },
        doc |-> {},
        throws |-> {"x_out_of_bounds", "y_out_of_bounds", "invalid_room_name"} ],
      [ id |-> "RoomTerrain.getRawBuffer:4764",
        overloads |-> { <<{"object"}>> },
        doc |-> {},
        throws |-> {"destinationArray_shorter_than_2500"} ],
      [ id |-> "Room.lookAt:5231",
        overloads |-> { <<{"object"}>> },
        doc |-> {},
        throws |-> {"x_out_of_bounds", "y_out_of_bounds"} ] }

ThrowingOperations ==
    { [ id |-> "InterShardMemory.setLocal:2350",
        overloads |-> { <<{"void"}>> },
        doc |-> {},
        throws |-> {"value_not_a_string", "value_longer_than_100x2014"} ],
      [ id |-> "InterShardMemory.getRemote:2357",
        overloads |-> { <<{"string", "null"}>> },
        doc |-> {},
        throws |-> {"invalid_shard_name"} ],
      [ id |-> "RawMemory.set:4360",
        overloads |-> { <<{"undefined"}>> },
        doc |-> {},
        throws |-> {"value_not_a_string", "value_longer_than_2MiB"} ],
      [ id |-> "RawMemory.setActiveSegments:4371",
        overloads |-> { <<{"undefined"}>> },
        doc |-> {},
        throws |-> {"ids_not_an_array", "more_than_10_segments", "id_not_an_integer"} ],
      [ id |-> "RawMemory.setActiveForeignSegment:4385",
        overloads |-> { <<{"undefined"}>> },
        doc |-> {},
        throws |-> {"id_not_an_integer"} ],
      [ id |-> "RawMemory.setDefaultPublicSegment:4394",
        overloads |-> { <<{"undefined"}>> },
        doc |-> {},
        throws |-> {"id_not_an_integer"} ],
      [ id |-> "RawMemory.setPublicSegments:4403",
        overloads |-> { <<{"undefined"}>> },
        doc |-> {},
        throws |-> {"ids_not_an_array", "id_not_an_integer"} ],
      [ id |-> "RoomPositionConstructor.new:4736",
        overloads |-> { <<{"object"}>> },
        doc |-> {},
        throws |-> {"x_out_of_bounds", "y_out_of_bounds", "invalid_room_name"} ],
      [ id |-> "RoomTerrain.getRawBuffer:4764",
        overloads |-> { <<{"object"}>> },
        doc |-> {},
        throws |-> {"destinationArray_shorter_than_2500"} ],
      [ id |-> "Room.lookAt:5231",
        overloads |-> { <<{"object"}>> },
        doc |-> {},
        throws |-> {"x_out_of_bounds", "y_out_of_bounds"} ] }

\* Every operation of the declarations whose comment documents how it fails.
DeclaredOperations == DocumentedMethods \cup ThrowingOperations

\* A run-time value, as far as the declarations tell values apart.
Num(n)    == [kind |-> "number", n |-> n]
Other(k)  == [kind |-> k, n |-> 0]
Thrown    == Other("throw")

\* type ExitConstant = FIND_EXIT_TOP | ... (2421), the literals 1, 3, 5, 7
\* (2453-2456).
ExitConstant == {1, 3, 5, 7}

\* The part of `number` the model tells apart: the result codes and the
\* exit constants.
NumberWindow == (-15 .. 0) \cup ExitConstant

\* The values of one atom of a declared return type.
AtomValues(atom) ==
    CASE atom \in ReturnCodeConstants -> { Num(ReturnCodeType[atom]) }
      [] atom \in ReturnCodeAliases   -> { Num(v) : v \in CodeValues(AliasMembers(atom)) }
      [] atom = "number"              -> { Num(v) : v \in NumberWindow }
      [] atom = "ExitConstant"        -> { Num(v) : v \in ExitConstant }
      [] OTHER                        -> { Other(atom) }

UnionValues(atoms) == UNION { AtomValues(a) : a \in atoms }

\* A & (B | C): the values in every part.
OverloadValues(o) ==
    { v \in UnionValues(o[1]) : \A i \in DOMAIN o : v \in UnionValues(o[i]) }

\* The values the declared return type of m admits: those of any overload.
DeclaredValues(m) == UNION { OverloadValues(o) : o \in m.overloads }

\* Whether the declared return type is a union of result codes only.
IsCodeUnion(m) ==
    \A o \in m.overloads : \A i \in DOMAIN o :
        o[i] \subseteq ReturnCodeConstants \cup ReturnCodeAliases

\* The values of a set of result-code names.
CodeValuesOf(names) == { Num(v) : v \in CodeValues(names) }

\* The result codes: the values of the declared constants.
ResultCodeValues == CodeValuesOf(ReturnCodeConstants)

\* The cases the documentation of m tells apart: one per listed code, one
\* per @throws condition, and success where OK is not among the codes
\* (the call then yields its non-code value).
Cases(m) == m.doc \cup m.throws \cup (IF "OK" \in m.doc THEN {} ELSE {"success"})

\* What the documentation says the call yields in a case.
Outcomes(m, c) ==
    IF c \in m.throws THEN { Thrown }
    ELSE IF c \in m.doc THEN { Num(ReturnCodeType[c]) }
    ELSE { v \in DeclaredValues(m) : v \notin ResultCodeValues }

-----------------------------------------------------------------------------
(* Resource constants: index.d.ts 2636-2838, as their string literals.     *)

RESOURCE_ENERGY  == "energy"
RESOURCE_POWER   == "power"
RESOURCE_OPS     == "ops"
RESOURCE_GHODIUM == "G"

\* lines 2650-2657
MineralConstant == { "U", "L", "K", "Z", "O", "H", "X" }

\* line 2660
MineralBaseCompoundsConstant == { "OH", "ZK", "UL", RESOURCE_GHODIUM }

\* lines 2663-2693
MineralBoostConstant ==
    { "UH", "UO", "KH", "KO", "LH", "LO", "ZH", "ZO", "GH", "GO",
      "UH2O", "UHO2", "KH2O", "KHO2", "LH2O", "LHO2", "ZH2O", "ZHO2",
      "GH2O", "GHO2", "XUH2O", "XUHO2", "XKH2O", "XKHO2", "XLH2O",
      "XLHO2", "XZH2O", "XZHO2", "XGH2O", "XGHO2" }

\* line 2696
MineralCompoundConstant == MineralBaseCompoundsConstant \cup MineralBoostConstant

\* line 2699
DepositConstant == { "mist", "biomass", "metal", "silicon" }

\* lines 2702-2738
CommodityConstant ==
    { "utrium_bar", "lemergium_bar", "zynthium_bar", "keanium_bar",
      "ghodium_melt", "oxidant", "reductant", "purifier", "battery",
      "composite", "crystal", "liquid", "wire", "switch", "transistor",
      "microchip", "circuit", "device", "cell", "phlegm", "tissue",
      "muscle", "organoid", "organism", "alloy", "tube", "fixtures",
      "frame", "hydraulics", "machine", "condensate", "concentrate",
      "extract", "spirit", "emanation", "essence" }

\* lines 2638-2645
ResourceConstant ==
    { RESOURCE_ENERGY, RESOURCE_POWER, RESOURCE_OPS } \cup MineralConstant \cup
    MineralCompoundConstant \cup DepositConstant \cup CommodityConstant

\* type _ResourceConstantSansEnergy = Exclude<ResourceConstant, RESOURCE_ENERGY>
\* (line 2647)
ResourceConstantSansEnergy == ResourceConstant \ { RESOURCE_ENERGY }

-----------------------------------------------------------------------------
(* Store: index.d.ts 5660-5710.  A store type is Store<P, U>: P the        *)
(* POSSIBLE_RESOURCES union, U the UNLIMITED_STORE flag.                   *)

\* The type `undefined` of an omitted resource argument (R's default).
Undefined == "undefined"

\* type StoreDefinition = Store<ResourceConstant, false>  (line 2054)
StoreDefinition == [P |-> ResourceConstant, U |-> FALSE]

\* type StoreDefinitionUnlimited = Store<ResourceConstant, true>  (line 2057)
StoreDefinitionUnlimited == [P |-> ResourceConstant, U |-> TRUE]

\* The store property of every interface that declares one.
StoreDeclarations ==
    { [owner |-> "Creep",               t |-> StoreDefinition],             \* 1177
      [owner |-> "PowerCreep",          t |-> StoreDefinition],             \* 3998
      [owner |-> "Ruin",                t |-> StoreDefinitionUnlimited],    \* 5336
      [owner |-> "StructureSpawn",      t |-> [P |-> {RESOURCE_ENERGY}, U |-> FALSE]],   \* 5451
      [owner |-> "StructureExtension",  t |-> [P |-> {RESOURCE_ENERGY}, U |-> FALSE]],   \* 5948
      [owner |-> "StructureLink",       t |-> [P |-> {RESOURCE_ENERGY}, U |-> FALSE]],   \* 5978
      [owner |-> "StructurePowerSpawn", t |-> [P |-> {RESOURCE_ENERGY, RESOURCE_POWER}, U |-> FALSE]],  \* 6103
      [owner |-> "StructureStorage",    t |-> StoreDefinition],             \* 6187
      [owner |-> "StructureTower",      t |-> [P |-> {RESOURCE_ENERGY}, U |-> FALSE]],   \* 6221
      [owner |-> "StructureLab",        t |-> [P |-> {RESOURCE_ENERGY} \cup MineralConstant \cup MineralCompoundConstant, U |-> FALSE]],  \* 6337
      [owner |-> "StructureTerminal",   t |-> StoreDefinition],             \* 6427
      [owner |-> "StructureContainer",  t |-> StoreDefinition],             \* 6466
      [owner |-> "StructureNuker",      t |-> [P |-> {RESOURCE_ENERGY, RESOURCE_GHODIUM}, U |-> FALSE]],  \* 6519
      [owner |-> "StructureFactory",    t |-> StoreDefinition],             \* 6585
      [owner |-> "Tombstone",           t |-> StoreDefinitionUnlimited] }   \* 6731

\* Store<P, U> instantiations a script may write itself (owner ""): P among
\* a few of the declared resource unions, U either flag.
StoreInstantiations ==
    { [owner |-> "", t |-> [P |-> P, U |-> U]] :
        P \in { {RESOURCE_ENERGY}, DepositConstant, ResourceConstantSansEnergy,
                ResourceConstant },
        U \in BOOLEAN }

\* The type arguments R a script can give the capacity methods: none
\* (R defaults to undefined), one resource literal, or a value of type
\* ResourceConstant (the whole union).
ResourceArguments ==
    { {Undefined} } \cup { {r} : r \in ResourceConstant } \cup { ResourceConstant }

\* R extends undefined ? (ResourceConstant extends P ? number : null)
\*                     : R extends P ? number : null
\* for one member r of R (a conditional type on a naked type parameter
\* distributes over the members of a union).
ResourceBranch_IgnoreP(P, r) ==
    IF r = Undefined
    THEN IF ResourceConstant \subseteq P THEN "number" ELSE "null"
    ELSE "number"

ResourceBranch(P, r) ==
    IF r = Undefined
    THEN IF ResourceConstant \subseteq P THEN "number" ELSE "null"
    ELSE IF r \in P THEN "number" ELSE "null"

GetCapacity_IgnoreUnlimited(t, R) == { ResourceBranch(t.P, r) : r \in R }

\* StoreBase.getCapacity (lines 5668-5678):
\*   UNLIMITED_STORE extends true ? null : <the branch on R>
GetCapacity(t, R) ==
    IF t.U THEN {"null"} ELSE { ResourceBranch(t.P, r) : r \in R }

GetUsedCapacity_AsCapacity(t, R) ==
    IF t.U THEN {"null"} ELSE { ResourceBranch(t.P, r) : r \in R }

\* StoreBase.getUsedCapacity (lines 5684-5686): the branch on R alone.
GetUsedCapacity(t, R) == { ResourceBranch(t.P, r) : r \in R }

\* StoreBase.getFreeCapacity (lines 5694-5704): as getCapacity.
GetFreeCapacity(t, R) ==
    IF t.U THEN {"null"} ELSE { ResourceBranch(t.P, r) : r \in R }

\* Store<P, U>'s indexed property (line 5710):
\*   { [p in P]: number } & { [p in Exclude<ResourceConstant, P>]: 0 }
StoreProperty(t, r) == IF r \in t.P THEN "number" ELSE "0"

StoreMethods == { "getCapacity", "getUsedCapacity", "getFreeCapacity" }

StoreMethodType(method, t, R) ==
    CASE method = "getCapacity"     -> GetCapacity(t, R)
      [] method = "getUsedCapacity" -> GetUsedCapacity(t, R)
      [] method = "getFreeCapacity" -> GetFreeCapacity(t, R)

-----------------------------------------------------------------------------
(* Idle values of the script's records.                                    *)

NoResolve == [op |-> "none", tag |-> "", types |-> {}]
NoCmp     == [op |-> "none", a |-> "", b |-> "", v |-> 0, yes |-> FALSE]
NoMethod  == [id |-> "", overloads |-> {}, doc |-> {}, throws |-> {}]
NoCall    == [m |-> NoMethod, case |-> "", outcome |-> Other("none")]
NoStore   == [owner |-> "", t |-> [P |-> {}, U |-> FALSE], method |-> "",
              R |-> {}, type |-> {}]

-----------------------------------------------------------------------------
(* The script's steps over the declarations.  The script evaluates one     *)
(* statement at a time: a step starts from the idle records and            *)
(* NextStatement returns to them.                                          *)

Idle == resolve = NoResolve /\ cmp = NoCmp /\ call = NoCall /\ store = NoStore

\* const s: ConcreteStructure<T>: look T up in ConcreteStructureMap.
ResolveConcrete(T) ==
    /\ Idle
    /\ resolve' = [op |-> "concrete", tag |-> T, types |-> ConcreteStructure(T)]
    /\ cmp' = NoCmp /\ call' = NoCall /\ store' = NoStore
    /\ UNCHANGED hostvars

\* if (s.structureType === T) { ... }: narrow s: AnyStructure to the
\* members of the union whose structureType is T.
NarrowAnyStructure(T) ==
    /\ Idle
    /\ resolve' = [op |-> "narrow", tag |-> T,
                   types |-> { i \in AnyStructure : T \in StructureTypeOf(i) }]
    /\ cmp' = NoCmp /\ call' = NoCall /\ store' = NoStore
    /\ UNCHANGED hostvars

\* a === b for two of the declared constants: equal when their literal
\* types have the same value.
CompareCodes(a, b) ==
    /\ Idle
    /\ cmp' = [op |-> "compare", a |-> a, b |-> b, v |-> ReturnCodeType[a],
               yes |-> (ReturnCodeType[a] = ReturnCodeType[b])]
    /\ resolve' = NoResolve /\ call' = NoCall /\ store' = NoStore
    /\ UNCHANGED hostvars

\* const x: B = y, with y of the named union A holding the value v:
\* accepted when v is a value of B.
AssignCode(a, b, v) ==
    /\ Idle
    /\ v \in CodeValues(AliasMembers(a))
    /\ cmp' = [op |-> "assign", a |-> a, b |-> b, v |-> v,
               yes |-> (v \in CodeValues(AliasMembers(b)))]
    /\ resolve' = NoResolve /\ call' = NoCall /\ store' = NoStore
    /\ UNCHANGED hostvars

\* A call of a documented operation in one of its documented cases.
CallOperation(m, c) ==
    /\ Idle
    /\ c \in Cases(m)
    /\ \E v \in Outcomes(m, c) :
         call' = [m |-> m, case |-> c, outcome |-> v]
    /\ resolve' = NoResolve /\ cmp' = NoCmp /\ store' = NoStore
    /\ UNCHANGED hostvars

\* x = s.getCapacity(r) and its siblings on a store of type d.t.
QueryStore(d, method, R) ==
    /\ Idle
    /\ store' = [owner |-> d.owner, t |-> d.t, method |-> method, R |-> R,
                 type |-> StoreMethodType(method, d.t, R)]
    /\ resolve' = NoResolve /\ cmp' = NoCmp /\ call' = NoCall
    /\ UNCHANGED hostvars

\* The statement is done.
NextStatement ==
    /\ ~Idle
    /\ resolve' = NoResolve /\ cmp' = NoCmp /\ call' = NoCall /\ store' = NoStore
    /\ UNCHANGED hostvars

-----------------------------------------------------------------------------
(* The host, as the documentation comments of the declarations describe    *)
(* it (the host itself is no part of the repository): the script runs      *)
(* once per tick against a snapshot; StructureObserver.observeRoom         *)
(* (index.d.ts 6030-6042, structure.ts 277-289) schedules visibility of a  *)
(* room for the next tick; Game.rooms (1789-1794) holds the visible rooms. *)
(* The world is a row of rooms 0 .. MaxRoom, the player's observer stands  *)
(* in room 0, and the player has at most one creep.                        *)

MaxRoom == 6

\* "The maximum range is 5 rooms." (6033; OBSERVER_RANGE is declared as a
\* number without its value, line 344)
OBSERVER_RANGE == 5

Rooms       == 0 .. MaxRoom
NoRoom      == -1
InvalidName == -2
HomeRoom    == 0

Distance(a, b) == IF a >= b THEN a - b ELSE b - a

\* The rooms in which the player has a creep or an owned structure.
Presence(t) ==
    (IF t.creep = NoRoom THEN {} ELSE {t.creep}) \cup
    (IF t.mine THEN {HomeRoom} ELSE {})

GameRooms_KeepVisible(t, creep) ==
    t.rooms \cup Presence([t EXCEPT !.creep = creep]) \cup
    (IF t.request = NoRoom THEN {} ELSE {t.request})

\* Game.rooms of the next tick: "A room is visible if you have a creep or
\* an owned structure in it" (1792), and the room an accepted observeRoom
\* of this tick asked for: "The target room object will be available on
\* the next tick" (6033).
GameRooms(t, creep) ==
    Presence([t EXCEPT !.creep = creep]) \cup
    (IF t.request = NoRoom THEN {} ELSE {t.request})

\* The documented failures of observeRoom that apply to a call (6037-6040).
ObserveRoomErrors(t, roomName) ==
    (IF ~t.mine THEN {ReturnCodeType.ERR_NOT_OWNER} ELSE {}) \cup
    (IF roomName \in Rooms /\ Distance(HomeRoom, roomName) > OBSERVER_RANGE
        THEN {ReturnCodeType.ERR_NOT_IN_RANGE} ELSE {}) \cup
    (IF roomName \notin Rooms THEN {ReturnCodeType.ERR_INVALID_ARGS} ELSE {}) \cup
    (IF ~t.rcl THEN {ReturnCodeType.ERR_RCL_NOT_ENOUGH} ELSE {})

\* observer.observeRoom(roomName): OK schedules the observation; any
\* failure that applies may be the one reported, and schedules nothing.
ObserveRoom(roomName) ==
    /\ IF ObserveRoomErrors(tickv, roomName) = {}
       THEN tickv' = [tickv EXCEPT !.request = roomName, !.ret = ReturnCodeType.OK]
       ELSE \E e \in ObserveRoomErrors(tickv, roomName) :
              tickv' = [tickv EXCEPT !.ret = e]
    /\ UNCHANGED <<scriptvars, market, segs, shards, pc, game, cm>>

\* The host resolves the tick: the creep stays, crosses to a neighbouring
\* room, dies or (when there is none) a new one is spawned at home; the
\* next snapshot is taken.
CreepMoves(t) ==
    IF t.creep = NoRoom THEN {NoRoom} \cup (IF t.mine THEN {HomeRoom} ELSE {})
    ELSE {NoRoom} \cup { r \in Rooms : Distance(r, t.creep) <= 1 }

Tick ==
    /\ \E c \in CreepMoves(tickv) :
         tickv' = [tickv EXCEPT !.creep = c,
                                !.rooms = GameRooms(tickv, c),
                                !.observed = tickv.request,
                                !.request = NoRoom,
                                !.ret = ReturnCodeType.OK]
    /\ UNCHANGED <<scriptvars, market, segs, shards, pc, game, cm>>

\* A first snapshot: nothing requested or observed yet.
FirstTick(creep, mine, rcl) ==
    LET t == [creep |-> creep, mine |-> mine, rcl |-> rcl, request |-> NoRoom,
              observed |-> NoRoom, rooms |-> {}, ret |-> ReturnCodeType.OK]
    IN  [t EXCEPT !.rooms = Presence(t)]

-----------------------------------------------------------------------------
(* createConstructionSite: the structureType parameter of every overload   *)
(* (RoomPosition: index.d.ts 4538-4562, Room: 5083-5136).                  *)

CreateConstructionSiteOverloads ==
    { [ id |-> "RoomPosition.createConstructionSite:4549",
        structureType |-> BuildableStructureConstant ],
      [ id |-> "RoomPosition.createConstructionSite:4562",
        structureType |-> { STRUCTURE_SPAWN } ],
      [ id |-> "Room.createConstructionSite:5096",
        structureType |-> BuildableStructureConstant ],
      [ id |-> "Room.createConstructionSite:5109",
        structureType |-> StructureConstant ],
      [ id |-> "Room.createConstructionSite:5123",
        structureType |-> { STRUCTURE_SPAWN } ],
      [ id |-> "Room.createConstructionSite:5136",
        structureType |-> { STRUCTURE_SPAWN } ] }

\* room.createConstructionSite(..., T) or pos.createConstructionSite(T),
\* accepted by the overload o: T is a value of o's structureType parameter.
CreateConstructionSite(o, T) ==
    /\ Idle
    /\ T \in o.structureType
    /\ resolve' = [op |-> "site", tag |-> T, types |-> { o.id }]
    /\ cmp' = NoCmp /\ call' = NoCall /\ store' = NoStore
    /\ UNCHANGED hostvars

-----------------------------------------------------------------------------
(* The room property of the room objects.                                  *)

\* RoomObject.room: Room | undefined  (index.d.ts 4452-4458)
RoomObjectRoom == { "Room", "undefined" }

\* The interfaces that extend RoomObject (OwnedStructure through
\* Structure), each with its own declaration of room, if it has one.
RoomObjectInterfaces ==
    { [ name |-> "ConstructionSite", room |-> {} ],          \* 1037
      [ name |-> "Creep",            room |-> { "Room" } ],  \* 1102, room 1165
      [ name |-> "Deposit",          room |-> {} ],          \* 1644
      [ name |-> "Flag",             room |-> {} ],          \* 1681
      [ name |-> "Mineral",          room |-> {} ],          \* 3673
      [ name |-> "Nuke",             room |-> {} ],          \* 3725
      [ name |-> "PowerCreep",       room |-> {} ],          \* 3935
      [ name |-> "Resource",         room |-> {} ],          \* 4414
      [ name |-> "Ruin",             room |-> {} ],          \* 5323
      [ name |-> "Source",           room |-> { "Room" } ],  \* 5362, room 5386
      [ name |-> "Structure",        room |-> { "Room" } ],  \* 5757, room 5780
      [ name |-> "OwnedStructure",   room |-> { "Room" } ],  \* 5817, room 5835
      [ name |-> "Tombstone",        room |-> {} ] }         \* 6713

\* The declared type of i.room: i's own declaration, else the inherited one.
RoomTypeOf(i) == IF i.room = {} THEN RoomObjectRoom ELSE i.room

\* const r = o.room, for o of the interface i.
ReadRoom(i) ==
    /\ Idle
    /\ resolve' = [op |-> "room", tag |-> i.name, types |-> RoomTypeOf(i)]
    /\ cmp' = NoCmp /\ call' = NoCall /\ store' = NoStore
    /\ UNCHANGED hostvars

-----------------------------------------------------------------------------
(* The market (index.d.ts 3405-3560), as the documentation of Market and   *)
(* the declared constants describe it.  Of the player's orders the model   *)
(* keeps their number and, in full, the one created last.  A number with a *)
(* fraction is a pair num / den.                                           *)

\* The prices and amounts the script uses.
Prices == 1 .. 2
Amounts == 1 .. 2

\* declare const MARKET_FEE: 0.05  (756)
MARKET_FEE == [num |-> 5, den |-> 100]

\* declare const MARKET_MAX_ORDERS: 300  (757)
MARKET_MAX_ORDERS == 300

\* "- ERR_FULL: You cannot create more than 50 orders."  (3475)
ErrFullOrderLimit == 50

\* The limits the source gives for the number of orders: the constant and
\* "The maximum orders count is 300 per player" (3465), and the ERR_FULL
\* line of createOrder (3475).
DocumentedOrderLimits == { MARKET_MAX_ORDERS, ErrFullOrderLimit }

\* Numbers beyond 32 bits, as hi * 10^6 + lo.
BigBase == 1000000
Big(n) == [hi |-> n \div BigBase, lo |-> n % BigBase]
BigTimes(b, k) ==
    LET p == b.lo * k
    IN  [hi |-> b.hi * k + p \div BigBase, lo |-> p % BigBase]
BigGeq(a, b) == a.hi > b.hi \/ (a.hi = b.hi /\ a.lo >= b.lo)

\* declare const MARKET_ORDER_LIFE_TIME: 2592000000  (758)
MARKET_ORDER_LIFE_TIME == [hi |-> 2592, lo |-> 0]

\* The milliseconds of one day.
MsPerDay == 1000 * 60 * 60 * 24

\* "An order expires in 30 days after its creation" (3468): its age has
\* reached MARKET_ORDER_LIFE_TIME.
Expired(days) == BigGeq(BigTimes(Big(MsPerDay), days), MARKET_ORDER_LIFE_TIME)

\* x * 0.05, the rate written in the three documented charges.
TimesFee_Tenth(x) == [num |-> x * 5, den |-> 10]
TimesFee(x) == [num |-> x * 5, den |-> 100]

\* "You will be charged price*amount*0.05 credits"  (3463)
CreateOrderFee(price, amount) == TimesFee(price * amount)

\* "You will be charged price*addAmount*0.05 credits"  (3506)
ExtendOrderFee(price, addAmount) == TimesFee(price * addAmount)

\* "If newPrice is greater than old price, you will be charged
\* (newPrice-oldPrice)*remainingAmount*0.05 credits"  (3450)
ChangeOrderPriceFee(newPrice, oldPrice, remainingAmount) ==
    IF newPrice > oldPrice
    THEN TimesFee((newPrice - oldPrice) * remainingAmount)
    ELSE TimesFee(0)

NoOrder == [price |-> 0, remaining |-> 0, total |-> 0, days |-> 0]
NoMarketCall == [m |-> "", price |-> 0, amount |-> 0, oldPrice |-> 0, held |-> 0]

\* The market of a player who holds no order, under the order limit.
FirstMarket(limit) ==
    [ count |-> 0, limit |-> limit, order |-> NoOrder, last |-> NoMarketCall,
      ret |-> ReturnCodeType.OK, fee |-> TimesFee(0) ]

\* What a call records: its result and the credits charged (on OK).
MarketCalled(mk, lastCall, ret, fee) ==
    [mk EXCEPT !.last = lastCall, !.ret = ret,
               !.fee = IF ret = ReturnCodeType.OK THEN fee ELSE TimesFee(0)]

\* The documented failures of a market call that apply: `problem` is what
\* is wrong outside the model's state (no terminal, too few credits, bad
\* arguments), `full` and `unknown` come from the state.
MarketErrors(problem, full, unknown) ==
    (IF problem = "no_terminal" THEN {ReturnCodeType.ERR_NOT_OWNER} ELSE {}) \cup
    (IF problem = "no_credits" THEN {ReturnCodeType.ERR_NOT_ENOUGH_RESOURCES} ELSE {}) \cup
    (IF problem = "invalid_args" \/ unknown THEN {ReturnCodeType.ERR_INVALID_ARGS} ELSE {}) \cup
    (IF full THEN {ReturnCodeType.ERR_FULL} ELSE {})

MarketProblems == { "none", "no_terminal", "no_credits", "invalid_args" }

\* Game.market.createOrder({price, totalAmount: amount, ...})  (3460-3478)
CreateOrder(price, amount, problem) ==
    LET errs == MarketErrors(problem, market.count >= market.limit, FALSE)
        lastCall == [m |-> "createOrder", price |-> price, amount |-> amount,
                     oldPrice |-> 0, held |-> market.count]
        created == [price |-> price, remaining |-> amount, total |-> amount,
                    days |-> 0]
    IN  /\ market.last = NoMarketCall
        /\ IF errs = {}
           THEN market' = MarketCalled(
                    [market EXCEPT !.count = @ + 1, !.order = created],
                    lastCall, ReturnCodeType.OK, CreateOrderFee(price, amount))
           ELSE \E e \in errs :
                    market' = MarketCalled(market, lastCall, e, TimesFee(0))
        /\ UNCHANGED <<scriptvars, tickv, segs, shards, pc, game, cm>>

\* Game.market.extendOrder(orderId, addAmount) on the order created last
\* (3503-3516): "It will affect remainingAmount and totalAmount
\* properties"; "doesn't update its expiration time".
ExtendOrder(addAmount, problem) ==
    LET o == market.order
        errs == MarketErrors(problem, FALSE, o = NoOrder)
        lastCall == [m |-> "extendOrder", price |-> o.price, amount |-> addAmount,
                     oldPrice |-> 0, held |-> market.count]
    IN  /\ market.last = NoMarketCall
        /\ problem # "no_terminal"
        /\ o.total + addAmount \in Amounts
        /\ IF errs = {}
           THEN market' = MarketCalled(
                    [market EXCEPT !.order.remaining = @ + addAmount,
                                   !.order.total = @ + addAmount],
                    lastCall, ReturnCodeType.OK, ExtendOrderFee(o.price, addAmount))
           ELSE \E e \in errs :
                    market' = MarketCalled(market, lastCall, e, TimesFee(0))
        /\ UNCHANGED <<scriptvars, tickv, segs, shards, pc, game, cm>>

\* Game.market.changeOrderPrice(orderId, newPrice) on the order created
\* last (3447-3459).
ChangeOrderPrice(newPrice, problem) ==
    LET o == market.order
        errs == MarketErrors(problem, FALSE, o = NoOrder)
        lastCall == [m |-> "changeOrderPrice", price |-> newPrice,
                     amount |-> o.remaining, oldPrice |-> o.price,
                     held |-> market.count]
    IN  /\ market.last = NoMarketCall
        /\ IF errs = {}
           THEN market' = MarketCalled(
                    [market EXCEPT !.order.price = newPrice],
                    lastCall, ReturnCodeType.OK,
                    ChangeOrderPriceFee(newPrice, o.price, o.remaining))
           ELSE \E e \in errs :
                    market' = MarketCalled(market, lastCall, e, TimesFee(0))
        /\ UNCHANGED <<scriptvars, tickv, segs, shards, pc, game, cm>>

\* Game.market.cancelOrder(orderId) (3437-3446), for the id of the order
\* created last, of an older order, or of no order of the player.  "The
\* 5% fee is not returned."
MarketCancelOrder(which) ==
    LET hasLast == market.order # NoOrder
        valid == \/ which = "last" /\ hasLast
                 \/ which = "older" /\ market.count > (IF hasLast THEN 1 ELSE 0)
        lastCall == [m |-> "cancelOrder", price |-> 0, amount |-> 0,
                     oldPrice |-> 0, held |-> market.count]
    IN  /\ market.last = NoMarketCall
        /\ IF valid
           THEN market' = MarketCalled(
                    [market EXCEPT !.count = @ - 1,
                                   !.order = IF which = "last" THEN NoOrder ELSE @],
                    lastCall, ReturnCodeType.OK, TimesFee(0))
           ELSE market' = MarketCalled(market, lastCall,
                                       ReturnCodeType.ERR_INVALID_ARGS, TimesFee(0))
        /\ UNCHANGED <<scriptvars, tickv, segs, shards, pc, game, cm>>

\* Another player deals with the order created last: Order.remainingAmount
\* goes down.
Dealt ==
    /\ market.last = NoMarketCall
    /\ market.order # NoOrder
    /\ market.order.remaining > 0
    /\ market' = [market EXCEPT !.order.remaining = @ - 1]
    /\ UNCHANGED <<scriptvars, tickv, segs, shards, pc, game, cm>>

\* d days pass for the order created last.  When it has expired it is
\* removed "and the remaining market fee is returned" (3468): the fee
\* recorded for "expire" is the credits returned.
DaysPass(d) ==
    LET o == market.order
        lastCall == [m |-> "expire", price |-> o.price, amount |-> o.remaining,
                     oldPrice |-> 0, held |-> market.count]
    IN  /\ market.last = NoMarketCall
        /\ o # NoOrder
        /\ ~Expired(o.days + d - 1)
        /\ IF Expired(o.days + d)
           THEN market' = MarketCalled(
                    [market EXCEPT !.count = @ - 1, !.order = NoOrder],
                    lastCall, ReturnCodeType.OK, TimesFee(o.price * o.remaining))
           ELSE market' = [market EXCEPT !.order.days = @ + d]
        /\ UNCHANGED <<scriptvars, tickv, segs, shards, pc, game, cm>>

\* The script has read the result of its market call and goes on.
MarketNextStatement ==
    /\ market.last # NoMarketCall
    /\ market' = [market EXCEPT !.last = NoMarketCall,
                                !.ret = ReturnCodeType.OK, !.fee = TimesFee(0)]
    /\ UNCHANGED <<scriptvars, tickv, segs, shards, pc, game, cm>>

NextMarket ==
    \/ \E price \in Prices, amount \in Amounts, problem \in MarketProblems :
          CreateOrder(price, amount, problem)
    \/ \E addAmount \in Amounts, problem \in MarketProblems :
          ExtendOrder(addAmount, problem)
    \/ \E newPrice \in Prices, problem \in MarketProblems :
          ChangeOrderPrice(newPrice, problem)
    \/ \E which \in { "last", "older", "unknown" } : MarketCancelOrder(which)
    \/ Dealt
    \/ \E d \in { 15 } : DaysPass(d)
    \/ MarketNextStatement

-----------------------------------------------------------------------------
(* Memory segments: RawMemory.segments and RawMemory.setActiveSegments     *)
(* (index.d.ts 4321-4327, 4361-4371), as their documentation describes     *)
(* them.  An id list is modelled by the set of its ids.                    *)

\* "Segment IDs are a number from 0 to 99."  (4365)
SegmentIds == 0 .. 99

\* "A maximum of 10 segments can be active at the same time."  (4365)
MaxActiveSegments == 10

\* The arguments the script passes: id lists of several lengths, among them
\* one of exactly 10 and one of 11 ids, and the two other documented kinds
\* of bad argument.
SegmentArguments ==
    { [kind |-> "ids", ids |-> ids] :
        ids \in { {}, {0}, {99}, {0, 99}, 0 .. 9, 90 .. 99, 0 .. 10, SegmentIds } }
    \cup { [kind |-> "not_an_array", ids |-> {}],
           [kind |-> "not_integers", ids |-> {}] }

TooManySegments_Never(ids) == FALSE

\* "@throws if ... more than 10 segments are active"  (4369)
TooManySegments(ids) == Cardinality(ids) > MaxActiveSegments

NoSegmentCall == [kind |-> "none", ids |-> {}]

\* Nothing requested, nothing available.
FirstSegments ==
    [ active |-> {}, segments |-> {}, arg |-> NoSegmentCall, before |-> {},
      ret |-> "none" ]

\* RawMemory.setActiveSegments(ids): throws on a bad argument; otherwise
\* the request replaces the earlier one ("Subsequent calls ... overrides
\* previous ones", 4366) and RawMemory.segments stays as it is until the
\* next tick.
SetActiveSegments(arg) ==
    /\ IF arg.kind # "ids" \/ TooManySegments(arg.ids)
       THEN segs' = [segs EXCEPT !.arg = arg, !.before = segs.active,
                                 !.ret = "throw"]
       ELSE segs' = [segs EXCEPT !.arg = arg, !.before = segs.active,
                                 !.ret = "undefined", !.active = arg.ids]
    /\ UNCHANGED <<scriptvars, tickv, market, shards, pc, game, cm>>

\* The next tick: "Memory segments will become available on the next tick
\* in RawMemory.segments"  (4364).
SegmentsTick ==
    /\ segs' = [segs EXCEPT !.segments = segs.active, !.arg = NoSegmentCall,
                            !.before = {}, !.ret = "none"]
    /\ UNCHANGED <<scriptvars, tickv, market, shards, pc, game, cm>>

NextSegments ==
    \/ \E arg \in SegmentArguments : SetActiveSegments(arg)
    \/ SegmentsTick

-----------------------------------------------------------------------------
(* InterShardMemory (index.d.ts 2328-2360), as its documentation describes *)
(* it: "Every shard can have its own data string that can be accessed by   *)
(* all other shards.  A shard can write only to its own data, other        *)
(* shards' data is read-only."  The script runs on every shard.            *)

ShardNames == { "shard0", "shard1", "shard2" }

\* The strings the scripts store.
ShardValues == { "a", "b" }

\* getRemote: "null if shard exists but data is not set".
Null == "null"

\* The arguments of setLocal: a string, or one of the documented bad values.
SetLocalArguments == ShardValues \cup { "not_a_string", "too_long" }

\* One data string for all shards, written all at once, as the deprecated
\* RawMemory.interShardSegment (4338-4349).
WriteShared(data, on, value) == [s \in ShardNames |-> value]

\* "Replace the current shard's data with the new value."  (2345)
WriteLocal(data, on, value) == [data EXCEPT ![on] = value]

NoShardCall == [m |-> "", on |-> "", shard |-> "", value |-> "", result |-> ""]

\* No shard has set its data; written is the value each shard's last
\* accepted setLocal passed.
FirstShards ==
    [ data |-> [s \in ShardNames |-> Null], before |-> [s \in ShardNames |-> Null],
      written |-> [s \in ShardNames |-> Null], last |-> NoShardCall ]

\* InterShardMemory.setLocal(value) in the script running on shard `on`.
SetLocal(on, value) ==
    LET c == [m |-> "setLocal", on |-> on, shard |-> on, value |-> value,
              result |-> IF value \in ShardValues THEN "void" ELSE "throw"]
    IN  /\ IF value \in ShardValues
           THEN shards' = [ data |-> WriteLocal(shards.data, on, value),
                            before |-> shards.data,
                            written |-> [shards.written EXCEPT ![on] = value],
                            last |-> c ]
           ELSE shards' = [shards EXCEPT !.before = shards.data, !.last = c]
        /\ UNCHANGED <<scriptvars, tickv, market, segs, pc, game, cm>>

\* InterShardMemory.getLocal() on shard `on`: "the string contents of the
\* current shard's data"; the declared type is string, so for data that
\* is not set the result is some string.
GetLocal(on) ==
    /\ \E result \in IF shards.data[on] = Null THEN ShardValues \cup {""}
                     ELSE { shards.data[on] } :
         shards' = [shards EXCEPT !.before = shards.data,
                       !.last = [m |-> "getLocal", on |-> on, shard |-> on,
                                 value |-> "", result |-> result]]
    /\ UNCHANGED <<scriptvars, tickv, market, segs, pc, game, cm>>

\* InterShardMemory.getRemote(shard) on shard `on`: "@throws if shard name
\* is invalid".
GetRemote(on, shard) ==
    /\ shards' = [shards EXCEPT !.before = shards.data,
                     !.last = [m |-> "getRemote", on |-> on, shard |-> shard,
                               value |-> "",
                               result |-> IF shard \in ShardNames
                                          THEN shards.data[shard] ELSE "throw"]]
    /\ UNCHANGED <<scriptvars, tickv, market, segs, pc, game, cm>>

NextShards ==
    \/ \E on \in ShardNames, value \in SetLocalArguments : SetLocal(on, value)
    \/ \E on \in ShardNames : GetLocal(on)
    \/ \E on \in ShardNames, shard \in ShardNames \cup { "no such shard" } :
          GetRemote(on, shard)

-----------------------------------------------------------------------------
(* A power creep of the player's account (index.d.ts 3935-4293), as the    *)
(* documentation of its methods describes it: it is spawned in the world   *)
(* or not, and its methods list ERR_BUSY for the state they cannot be      *)
(* called in.                                                              *)

\* The methods called on a power creep that "should NOT be spawned in the
\* world" (delete, rename) or that spawns it; upgrade concerns the account
\* and depends on neither state.
PowerCreepAccountMethods ==
    { "PowerCreep.delete:4046", "PowerCreep.rename:4157",
      "PowerCreep.spawn:4196" }

\* The commands of a power creep in the world: they act on its position,
\* its cargo or its room.
PowerCreepWorldMethods ==
    { "PowerCreep.cancelOrder:4034", "PowerCreep.drop:4058",
      "PowerCreep.enableRoom:4070", "PowerCreep.move:4083",
      "PowerCreep.moveByPath:4097", "PowerCreep.moveTo:4116",
      "PowerCreep.notifyWhenAttacked:4132", "PowerCreep.pickup:4146",
      "PowerCreep.renew:4170", "PowerCreep.say:4184",
      "PowerCreep.suicide:4206", "PowerCreep.transfer:4224",
      "PowerCreep.usePower:4255", "PowerCreep.withdraw:4277" }

PowerCreepMethods ==
    { m \in DocumentedMethods :
        m.id \in PowerCreepAccountMethods \cup PowerCreepWorldMethods
                 \cup { "PowerCreep.upgrade:4237" } }

\* Whether the power creep is in the state the method cannot be called in.
WrongSpawnState(p, m) ==
    \/ m.id \in PowerCreepAccountMethods /\ p.spawned
    \/ m.id \in PowerCreepWorldMethods /\ ~p.spawned

\* The documented codes of m other than OK, ERR_NOT_OWNER and ERR_BUSY.
OtherFailures(m) == m.doc \ { "OK", "ERR_NOT_OWNER", "ERR_BUSY" }

\* The codes a call may return.  `problem` is what is wrong outside the
\* spawn state: the creep is not the player's, or one of the method's
\* other documented failures applies.  A method called in the wrong spawn
\* state returns ERR_BUSY if it documents it; what it returns if it does
\* not is not documented: any of its codes.
PowerCreepReturns(p, m, problem) ==
    LET busy == WrongSpawnState(p, m)
        errs == (IF problem = "not_owner" THEN { "ERR_NOT_OWNER" } ELSE {}) \cup
                (IF problem = "other" THEN OtherFailures(m) ELSE {}) \cup
                (IF busy /\ "ERR_BUSY" \in m.doc THEN { "ERR_BUSY" } ELSE {})
    IN  IF errs # {} THEN errs
        ELSE IF busy THEN m.doc
        ELSE { "OK" }

NoPowerCreepCall == [id |-> "", problem |-> "", spawned |-> FALSE]

\* PowerCreep.create: "It will be added in an unspawned state"  (4284)
FirstPowerCreep ==
    [ exists |-> TRUE, spawned |-> FALSE, deleting |-> FALSE, intent |-> "",
      last |-> NoPowerCreepCall, ret |-> "" ]

\* The intent an accepted call leaves for the end of the tick.
PowerCreepIntent(p, m, cancel) ==
    CASE m.id = "PowerCreep.spawn:4196"   -> [p EXCEPT !.intent = "spawn"]
      [] m.id = "PowerCreep.suicide:4206" -> [p EXCEPT !.intent = "suicide"]
      [] m.id = "PowerCreep.delete:4046"  -> [p EXCEPT !.deleting = ~cancel]
      [] OTHER                            -> p

\* powerCreep.<method>(...): the snapshot of the tick decides the code.
\* cancel is the argument of delete.
PowerCreepCall(m, problem, cancel) ==
    /\ pc.exists
    /\ problem = "other" => OtherFailures(m) # {}
    /\ \E c \in PowerCreepReturns(pc, m, problem) :
         pc' = [ (IF c = "OK" THEN PowerCreepIntent(pc, m, cancel) ELSE pc)
                   EXCEPT !.last = [id |-> m.id, problem |-> problem,
                                    spawned |-> pc.spawned],
                          !.ret = c ]
    /\ UNCHANGED <<scriptvars, tickv, market, segs, shards, game, cm>>

\* The end of the tick: a scheduled spawn or suicide is carried out
\* (suicide: "It will not be destroyed permanently, but will become
\* unspawned", 4200); a spawned creep may also die of age (ticksToLive,
\* 4020) "and become unspawned".
PowerCreepTick ==
    /\ pc.exists
    /\ \E dies \in BOOLEAN :
         pc' = [pc EXCEPT
                  !.spawned = CASE pc.intent = "spawn"   -> TRUE
                                [] pc.intent = "suicide" -> FALSE
                                [] OTHER -> IF dies THEN FALSE ELSE pc.spawned,
                  !.intent = "", !.last = NoPowerCreepCall, !.ret = ""]
    /\ UNCHANGED <<scriptvars, tickv, market, segs, shards, game, cm>>

\* The delete time of an unspawned power creep runs out (4039): it is
\* deleted from the account.
PowerCreepDeleted ==
    /\ pc.exists /\ pc.deleting /\ ~pc.spawned /\ pc.intent = ""
    /\ pc' = [pc EXCEPT !.exists = FALSE, !.last = NoPowerCreepCall, !.ret = ""]
    /\ UNCHANGED <<scriptvars, tickv, market, segs, shards, game, cm>>

\* PowerCreep.create: a new power creep takes the place of the deleted one.
PowerCreepCreate ==
    /\ ~pc.exists
    /\ pc' = FirstPowerCreep
    /\ UNCHANGED <<scriptvars, tickv, market, segs, shards, game, cm>>

NextPowerCreep ==
    \/ \E m \in PowerCreepMethods, problem \in { "none", "not_owner", "other" },
          cancel \in BOOLEAN : PowerCreepCall(m, problem, cancel)
    \/ PowerCreepTick
    \/ PowerCreepDeleted
    \/ PowerCreepCreate

-----------------------------------------------------------------------------
(* Creeps and their orders, as the documentation of the methods describes  *)
(* them: a call that returns OK "has been scheduled successfully", the     *)
(* host carries the scheduled orders out at the end of the tick, and       *)
(* Creep.cancelOrder (index.d.ts 1238-1245) cancels "the order given       *)
(* during the current game tick".  The player has one spawn, one creep     *)
(* name, one container next to the creep and one other structure; the      *)
(* creep carries at most one unit and the container holds at most one.     *)

\* The documented method with this id.
Method(id) == CHOOSE m \in DocumentedMethods : m.id = id

\* The calls of the model and the name of the order each schedules.
OrderNames ==
    [ transfer |-> "Creep.transfer:1581", withdraw |-> "Creep.withdraw:1626",
      suicide |-> "Creep.suicide:1563", destroy |-> "Structure.destroy:5792",
      cancel |-> "Spawning.cancel:5616",
      spawnCreep |-> "StructureSpawn.spawnCreep:5531" ]

\* The orders of a creep, which cancelOrder can name.
CreepOrders == { "transfer", "withdraw", "suicide" }

\* Whether the object the order is called on is in the snapshot.
ObjectExists(g, order) ==
    CASE order \in CreepOrders  -> g.creep # "none"
      [] order = "destroy"      -> g.structure
      [] order = "cancel"       -> g.creep = "spawning"
      [] order = "spawnCreep"   -> TRUE

\* The documented failures that the snapshot decides.
SnapshotErrors(g, order) ==
    CASE order = "transfer" ->
           (IF g.creep = "spawning" THEN {"ERR_BUSY"} ELSE {}) \cup
           (IF ~g.carry THEN {"ERR_NOT_ENOUGH_RESOURCES"} ELSE {}) \cup
           (IF g.stored THEN {"ERR_FULL"} ELSE {})
      [] order = "withdraw" ->
           (IF g.creep = "spawning" THEN {"ERR_BUSY"} ELSE {}) \cup
           (IF ~g.stored THEN {"ERR_NOT_ENOUGH_RESOURCES"} ELSE {}) \cup
           (IF g.carry THEN {"ERR_FULL"} ELSE {})
      [] order = "suicide" ->
           (IF g.creep = "spawning" THEN {"ERR_BUSY"} ELSE {})
      [] order = "spawnCreep" ->
           (IF g.creep # "none" THEN {"ERR_NAME_EXISTS"} ELSE {}) \cup
           (IF g.creep = "spawning" THEN {"ERR_BUSY"} ELSE {})
      [] OTHER -> {}

\* The documented failures the model's snapshot does not decide.
InputErrors(order) ==
    CASE order \in {"transfer", "withdraw"} ->
           {"ERR_INVALID_TARGET", "ERR_NOT_IN_RANGE", "ERR_INVALID_ARGS"}
      [] order = "destroy"    -> {"ERR_BUSY"}
      [] order = "spawnCreep" ->
           {"ERR_NOT_ENOUGH_ENERGY", "ERR_INVALID_ARGS", "ERR_RCL_NOT_ENOUGH"}
      [] OTHER -> {}

\* The codes the call may return: any failure that applies, else OK.
OrderReturns(g, order, problem) ==
    LET errs == SnapshotErrors(g, order) \cup
                (IF problem = "not_owner" THEN {"ERR_NOT_OWNER"} ELSE {}) \cup
                (IF problem = "other" THEN InputErrors(order) ELSE {})
    IN  IF errs # {} THEN errs ELSE {"OK"}

Accepted_Always(ret) == TRUE

\* "OK: The operation has been scheduled successfully."
Accepted(ret) == ret = "OK"

StoresMemory_AnyOrder(order, withMemory) == TRUE

\* SpawnOptions.memory: "If provided, it will be immediately stored into
\* Memory.creeps[name]."  (5633-5639)
StoresMemory(order, withMemory) == order = "spawnCreep" /\ withMemory

CancelFound_Always(intents, methodName) == TRUE

\* cancelOrder: whether "the order with the specified name" is found.
CancelFound(intents, methodName) == methodName \in intents

NoGameCall == [order |-> "", problem |-> "", arg |-> "", withMemory |-> FALSE]

\* The first tick: the creep lives and carries a unit, the container is
\* empty, Memory.creeps has no entry for the creep's name.
\* What the game objects show to a script during a tick, with the entry
\* of Memory.creeps for the creep's name.
Snapshot(g) ==
    [ creep |-> g.creep, carry |-> g.carry, stored |-> g.stored,
      structure |-> g.structure, memory |-> g.memory ]

\* The first tick: the creep lives and carries a unit, the container is
\* empty, Memory.creeps has no entry for the creep's name.
FirstGame ==
    LET g == [ creep |-> "alive", carry |-> TRUE, stored |-> FALSE,
               structure |-> TRUE, memory |-> FALSE ]
    IN  [ creep |-> g.creep, carry |-> g.carry, stored |-> g.stored,
          structure |-> g.structure, memory |-> g.memory, start |-> g,
          intents |-> {}, applied |-> {}, last |-> NoGameCall, ret |-> "" ]

\* A call of one of the scheduling methods.  A call that is accepted
\* schedules its order; spawnCreep with opts.memory also stores the memory.
GameCall(order, problem, withMemory) ==
    /\ game.last = NoGameCall
    /\ ObjectExists(game, order)
    /\ withMemory => order = "spawnCreep"
    /\ \E ret \in OrderReturns(game, order, problem) :
         /\ ret \in Method(OrderNames[order]).doc
         /\ game' = [game EXCEPT
              !.intents = IF Accepted(ret) THEN @ \cup {order} ELSE @,
              !.memory = IF Accepted(ret) /\ StoresMemory(order, withMemory)
                           THEN TRUE ELSE @,
              !.last = [order |-> order, problem |-> problem, arg |-> "",
                        withMemory |-> withMemory],
              !.ret = ret]
    /\ UNCHANGED <<scriptvars, tickv, market, segs, shards, pc, cm>>

\* Creep.cancelOrder(methodName)  (1238-1245)
CancelOrder(methodName) ==
    /\ game.last = NoGameCall
    /\ game.creep # "none"
    /\ LET found == CancelFound(game.intents \cap CreepOrders, methodName)
       IN  game' = [game EXCEPT
              !.intents = IF found THEN @ \ {methodName} ELSE @,
              !.last = [order |-> "cancelOrder", problem |-> "none",
                        arg |-> methodName, withMemory |-> FALSE],
              !.ret = IF found THEN "OK" ELSE "ERR_NOT_FOUND"]
    /\ game'.ret \in Method("Creep.cancelOrder:1245").doc
    /\ UNCHANGED <<scriptvars, tickv, market, segs, shards, pc, cm>>

\* The script goes on to its next statement.
GameNextStatement ==
    /\ game.last # NoGameCall
    /\ game' = [game EXCEPT !.last = NoGameCall, !.ret = ""]
    /\ UNCHANGED <<scriptvars, tickv, market, segs, shards, pc, cm>>

\* The end of the tick: the host carries out the scheduled orders.  A
\* creep that is told to transfer and to kill itself in one tick dies;
\* whether the container received the unit is not documented.  A creep
\* being spawned may finish spawning at any tick.
GameTick ==
    /\ game.last = NoGameCall
    /\ LET I == game.intents
       IN  \E finished, delivered \in BOOLEAN :
             /\ finished => game.creep = "spawning" /\ I = {}
             /\ delivered => "transfer" \in I
             /\ ~delivered => ("transfer" \in I => "suicide" \in I)
             /\ LET creep == CASE "suicide" \in I    -> "none"
                               [] "cancel" \in I     -> "none"
                               [] "spawnCreep" \in I -> "spawning"
                               [] finished           -> "alive"
                               [] OTHER              -> game.creep
                    carry == CASE creep # game.creep  -> FALSE
                               [] "transfer" \in I    -> FALSE
                               [] "withdraw" \in I    -> TRUE
                               [] OTHER               -> game.carry
                    stored == CASE delivered          -> TRUE
                                [] "withdraw" \in I   -> FALSE
                                [] OTHER              -> game.stored
                    structure == game.structure /\ "destroy" \notin I
                    g == [ creep |-> creep, carry |-> carry,
                           stored |-> stored, structure |-> structure,
                           memory |-> game.memory ]
                IN  game' = [ creep |-> creep, carry |-> carry,
                              stored |-> stored, structure |-> structure,
                              memory |-> game.memory, start |-> g,
                              intents |-> {}, applied |-> I,
                              last |-> NoGameCall, ret |-> "" ]
    /\ UNCHANGED <<scriptvars, tickv, market, segs, shards, pc, cm>>

GameProblems == { "none", "not_owner", "other" }

CancelOrderArguments == CreepOrders \cup { "nonsense" }

NextGame ==
    \/ game.last = NoGameCall /\ \E order \in DOMAIN OrderNames :
         \E problem \in GameProblems : \E withMemory \in BOOLEAN :
           GameCall(order, problem, withMemory)
    \/ game.last = NoGameCall /\ \E methodName \in CancelOrderArguments :
         CancelOrder(methodName)
    \/ GameNextStatement
    \/ GameTick

-----------------------------------------------------------------------------
(* CostMatrix (index.d.ts 3876-3919) as its documentation describes it: a  *)
(* cost per position, 0 everywhere in a new matrix.  The script holds a    *)
(* matrix m and at most one other matrix, copy, obtained by m.clone() or   *)
(* CostMatrix.deserialize(m.serialize()).  Matrices are objects: a         *)
(* variable holds a reference into the heap.                               *)

\* The x and y positions of the model's room.
MatrixCoords == 0 .. 1

MatrixPositions == MatrixCoords \X MatrixCoords

\* Whole-number costs: the terrain default, a cost and an unwalkable one.
MatrixCosts == { 0, 1, 255 }

\* new PathFinder.CostMatrix: "containing 0's for all positions"
NewCostMatrix == [p \in MatrixPositions |-> 0]

\* CostMatrix.set(x, y, cost)
SetCost(m, x, y, cost) == [m EXCEPT ![<<x, y>>] = cost]

\* CostMatrix.get(x, y)
GetCost(m, x, y) == m[<<x, y>>]

\* The place of a position in the array serialize returns.
CellIndex(x, y) == x * Cardinality(MatrixCoords) + y + 1

\* CostMatrix.serialize(): number[]
Serialize(m) ==
    [ i \in 1 .. Cardinality(MatrixPositions) |->
        m[<< (i - 1) \div Cardinality(MatrixCoords),
             (i - 1) % Cardinality(MatrixCoords) >>] ]

Deserialize_Transposed(val) ==
    [ p \in MatrixPositions |-> val[CellIndex(p[2], p[1])] ]

\* CostMatrix.deserialize(val): "a new CostMatrix using the return value
\* of serialize"
Deserialize(val) ==
    [ p \in MatrixPositions |-> val[CellIndex(p[1], p[2])] ]

\* The references of the heap: m is object 1, a new object is object 2.
MatrixRefs == { 1, 2 }

NewMatrixRef_Same(ref) == ref

\* clone and deserialize return "a new CostMatrix".
NewMatrixRef(ref) == CHOOSE r \in MatrixRefs : r # ref

NoMatrixCall == [op |-> "", on |-> "", x |-> 0, y |-> 0, cost |-> 0]

\* m = new PathFinder.CostMatrix, no copy yet.
FirstMatrices ==
    [ heap |-> [r \in MatrixRefs |-> NewCostMatrix], m |-> 1, copy |-> 0,
      last |-> NoMatrixCall, result |-> 0 ]

\* The object a variable of the script refers to.
MatrixRef(c, on) == IF on = "m" THEN c.m ELSE c.copy

\* m = new PathFinder.CostMatrix; the copy is dropped.
MatrixNew ==
    /\ cm.last = NoMatrixCall
    /\ cm' = [FirstMatrices EXCEPT !.last.op = "new", !.last.on = "m"]
    /\ UNCHANGED <<scriptvars, tickv, market, segs, shards, pc, game>>

\* m.set(x, y, cost) or copy.set(x, y, cost)
MatrixSet(on, x, y, cost) ==
    /\ cm.last = NoMatrixCall
    /\ MatrixRef(cm, on) # 0
    /\ cm' = [cm EXCEPT
         !.heap[MatrixRef(cm, on)] = SetCost(@, x, y, cost),
         !.last = [op |-> "set", on |-> on, x |-> x, y |-> y, cost |-> cost],
         !.result = 0]
    /\ UNCHANGED <<scriptvars, tickv, market, segs, shards, pc, game>>

\* m.get(x, y) or copy.get(x, y)
MatrixGet(on, x, y) ==
    /\ cm.last = NoMatrixCall
    /\ MatrixRef(cm, on) # 0
    /\ cm' = [cm EXCEPT
         !.last = [op |-> "get", on |-> on, x |-> x, y |-> y, cost |-> 0],
         !.result = GetCost(cm.heap[MatrixRef(cm, on)], x, y)]
    /\ UNCHANGED <<scriptvars, tickv, market, segs, shards, pc, game>>

\* copy = m.clone()
MatrixClone ==
    /\ cm.last = NoMatrixCall
    /\ LET ref == NewMatrixRef(cm.m)
       IN  cm' = [cm EXCEPT
             !.heap[ref] = cm.heap[cm.m],
             !.copy = ref,
             !.last = [NoMatrixCall EXCEPT !.op = "clone", !.on = "m"],
             !.result = 0]
    /\ UNCHANGED <<scriptvars, tickv, market, segs, shards, pc, game>>

\* copy = PathFinder.CostMatrix.deserialize(m.serialize())
MatrixDeserialize ==
    /\ cm.last = NoMatrixCall
    /\ LET ref == NewMatrixRef(cm.m)
       IN  cm' = [cm EXCEPT
             !.heap[ref] = Deserialize(Serialize(cm.heap[cm.m])),
             !.copy = ref,
             !.last = [NoMatrixCall EXCEPT !.op = "deserialize", !.on = "m"],
             !.result = 0]
    /\ UNCHANGED <<scriptvars, tickv, market, segs, shards, pc, game>>

\* The script goes on to its next statement.
MatrixNextStatement ==
    /\ cm.last # NoMatrixCall
    /\ cm' = [cm EXCEPT !.last = NoMatrixCall, !.result = 0]
    /\ UNCHANGED <<scriptvars, tickv, market, segs, shards, pc, game>>

MatrixVariables == { "m", "copy" }

NextMatrix ==
    \/ MatrixNew
    \/ cm.last = NoMatrixCall /\ \E on \in MatrixVariables :
         \E x, y \in MatrixCoords : \E cost \in MatrixCosts :
           MatrixSet(on, x, y, cost)
    \/ cm.last = NoMatrixCall /\ \E on \in MatrixVariables :
         \E x, y \in MatrixCoords : MatrixGet(on, x, y)
    \/ MatrixClone
    \/ MatrixDeserialize
    \/ MatrixNextStatement

\* The first state of the host behaviours that have their own specification.
OtherHostsInit ==
    /\ market = FirstMarket(MARKET_MAX_ORDERS)
    /\ segs = FirstSegments
    /\ shards = FirstShards
    /\ pc = FirstPowerCreep
    /\ game = FirstGame
    /\ cm = FirstMatrices

Init ==
    /\ resolve = NoResolve
    /\ cmp = NoCmp
    /\ call = NoCall
    /\ store = NoStore
    /\ tickv = FirstTick(HomeRoom, TRUE, TRUE)
    /\ OtherHostsInit

Next ==
    \/ Idle /\ \E T \in StructureConstant : ResolveConcrete(T)
    \/ Idle /\ \E T \in StructureConstant : NarrowAnyStructure(T)
    \/ Idle /\ \E a, b \in ReturnCodeConstants : CompareCodes(a, b)
    \/ Idle /\ \E a, b \in ReturnCodeAliases : \E v \in -15 .. 0 : AssignCode(a, b, v)
    \/ Idle /\ \E m \in DeclaredOperations : \E c \in Cases(m) : CallOperation(m, c)
    \/ Idle /\ \E d \in StoreDeclarations \cup StoreInstantiations :
         \E method \in StoreMethods : \E R \in ResourceArguments :
           QueryStore(d, method, R)
    \/ Idle /\ \E o \in CreateConstructionSiteOverloads :
         \E T \in StructureConstant : CreateConstructionSite(o, T)
    \/ Idle /\ \E i \in RoomObjectInterfaces : ReadRoom(i)
    \/ NextStatement

\* The script over the declarations.
Spec == Init /\ [][Next]_vars

InitHost ==
    /\ resolve = NoResolve
    /\ cmp = NoCmp
    /\ call = NoCall
    /\ store = NoStore
    /\ \E creep \in {NoRoom, HomeRoom}, mine \in BOOLEAN, rcl \in BOOLEAN :
         tickv = FirstTick(creep, mine, rcl)
    /\ OtherHostsInit

NextHost ==
    \/ \E roomName \in Rooms \cup {InvalidName} : ObserveRoom(roomName)
    \/ Tick

\* The script's calls against the host, tick after tick.
SpecHost == InitHost /\ [][NextHost]_vars

\* The market calls of a player who starts without orders; which of the
\* documented order limits the host applies is not known.
InitMarket ==
    /\ Idle
    /\ tickv = FirstTick(HomeRoom, TRUE, TRUE)
    /\ \E limit \in DocumentedOrderLimits : market = FirstMarket(limit)
    /\ segs = FirstSegments /\ shards = FirstShards /\ pc = FirstPowerCreep /\ game = FirstGame
    /\ cm = FirstMatrices

SpecMarket == InitMarket /\ [][NextMarket]_vars

\* The calls on one power creep, tick after tick.
SpecPowerCreep == Init /\ [][NextPowerCreep]_vars

\* The scripts of the shards, interleaved.
SpecShards == Init /\ [][NextShards]_vars

\* The script's segment requests, tick after tick.
SpecSegments == Init /\ [][NextSegments]_vars

\* The creep, its orders and Memory.creeps under the scheduling calls.
SpecGame == Init /\ [][NextGame]_vars

\* CostMatrix objects under set, get, clone, serialize and deserialize.
SpecMatrix == Init /\ [][NextMatrix]_vars

-----------------------------------------------------------------------------
(* The claims.                                                             *)

\* C1: ConcreteStructureMap has exactly one entry for each of the 21
\* StructureConstant tags and no other entry, and for every tag T the
\* interface ConcreteStructure<T> is declared with structureType T (it
\* extends Structure<T> or OwnedStructure<T>).
C1_ConcreteStructureMap ==
    /\ Cardinality(StructureConstant) = 21
    /\ Cardinality(ConcreteStructureMap) = 21
    /\ { e[1] : e \in ConcreteStructureMap } = StructureConstant
    /\ resolve.op = "concrete" =>
         \E i \in StructureInterfaces :
            /\ resolve.types = { i.name }
            /\ i.T = resolve.tag
            /\ i.base \in { "Structure", "OwnedStructure" }

C1_Witness ==
    /\ resolve.op = "concrete"
    /\ resolve.tag = STRUCTURE_RAMPART
    /\ resolve.types = { "StructureRampart" }

\* C2: AnyStructure is a discriminated union on structureType: its
\* members have pairwise distinct structureType tags, the set of those
\* tags is StructureConstant, and narrowing by any tag leaves exactly one
\* member.
C2_AnyStructureDiscriminated ==
    /\ \A i \in AnyStructure : Cardinality(StructureTypeOf(i)) = 1
    /\ \A i, j \in AnyStructure :
         i # j => StructureTypeOf(i) \cap StructureTypeOf(j) = {}
    /\ UNION { StructureTypeOf(i) : i \in AnyStructure } = StructureConstant
    /\ resolve.op = "narrow" => Cardinality(resolve.types) = 1

C2_Witness ==
    /\ resolve.op = "narrow"
    /\ resolve.tag = STRUCTURE_WALL
    /\ resolve.types = { "StructureWall" }

NotEnoughTrio ==
    { "ERR_NOT_ENOUGH_RESOURCES", "ERR_NOT_ENOUGH_ENERGY", "ERR_NOT_ENOUGH_EXTENSIONS" }

\* C3: the 17 result-code names denote exactly 15 distinct integers, OK = 0
\* and the errors -1..-15 without -13; the three ERR_NOT_ENOUGH_* names
\* are all -6 and every other pair of names differs; ScreepsReturnCode is
\* the union of all 17 names, and CreepMoveReturnCode is a subset of
\* CreepActionReturnCode, which is a subset of ScreepsReturnCode (so every
\* value of the smaller union is accepted where the larger is expected).
C3_ReturnCodes ==
    /\ Cardinality(ReturnCodeConstants) = 17
    /\ Cardinality(CodeValues(ReturnCodeConstants)) = 15
    /\ CodeValues(ReturnCodeConstants) = (-15 .. 0) \ {-13}
    /\ ReturnCodeType.OK = 0
    /\ CodeValues(NotEnoughTrio) = {-6}
    /\ ScreepsReturnCode = ReturnCodeConstants
    /\ CreepMoveReturnCode \subseteq CreepActionReturnCode
    /\ CreepActionReturnCode \subseteq ScreepsReturnCode
    /\ cmp.op = "compare" =>
         (cmp.yes <=> (cmp.a = cmp.b \/ {cmp.a, cmp.b} \subseteq NotEnoughTrio))
    /\ ( /\ cmp.op = "assign"
         /\ <<cmp.a, cmp.b>> \in { <<"CreepMoveReturnCode", "CreepActionReturnCode">>,
                                   <<"CreepActionReturnCode", "ScreepsReturnCode">>,
                                   <<"CreepMoveReturnCode", "ScreepsReturnCode">> } )
       => cmp.yes

C3_Witness ==
    /\ cmp.op = "compare"
    /\ cmp.a = "ERR_NOT_ENOUGH_ENERGY"
    /\ cmp.b = "ERR_NOT_ENOUGH_EXTENSIONS"
    /\ cmp.yes
    /\ cmp.v = -6

\* C4 (as claimed): no declared operation signals failure by throwing; in
\* every failing case the call yields a result code.
C4_NoOperationThrows ==
    (call.m.id # "" /\ call.case \notin {"OK", "success"})
        => call.outcome \in ResultCodeValues

\* C4 (amended): an operation whose documentation lists result codes
\* yields the listed code in each listed case; a call throws only where
\* the documentation says @throws, which it does for ten operations, none
\* of which lists result codes or has a result code in its declared
\* return type.
C4_ThrowsOnlyWhereDocumented ==
    /\ Cardinality(ThrowingOperations) = 10
    /\ \A m \in DeclaredOperations :
         m.throws # {} => (m.doc = {} /\ DeclaredValues(m) \cap ResultCodeValues = {})
    /\ call.case \in call.m.doc => call.outcome \in ResultCodeValues
    /\ call.outcome = Thrown =>
         (call.m \in ThrowingOperations /\ call.case \in call.m.throws)
    /\ (call.m.id # "" /\ call.case \in call.m.throws) => call.outcome = Thrown

C4_Witness ==
    /\ call.m.id = "RawMemory.set:4360"
    /\ call.case = "value_longer_than_2MiB"
    /\ call.outcome = Thrown

\* C5: for every method whose declared return type is a union of result
\* codes and whose documentation lists result codes, each documented code
\* is a member of the declared return type.
C5_DocumentedCodesDeclared ==
    (call.m.id # "" /\ IsCodeUnion(call.m) /\ call.case \in call.m.doc)
        => call.outcome \in DeclaredValues(call.m)

\* C6: StructureRampart.setPublic returns a result code, OK or
\* ERR_NOT_OWNER: its declared return type admits the code it yields.
C6_SetPublicReturnsCode ==
    call.m.id = "StructureRampart.setPublic:6151" =>
        /\ call.outcome \in CodeValuesOf({"OK", "ERR_NOT_OWNER"})
        /\ call.outcome \in DeclaredValues(call.m)

CapacityMethods == { "getCapacity", "getFreeCapacity" }

\* A query for resources the store can hold.
HoldableQuery == store.R # {} /\ store.R \subseteq store.t.P

\* C8 (as claimed): every store attached to a declared entity is
\* capacity-bounded: getCapacity and getFreeCapacity are a number, not
\* null, for the resources the store can hold.
C8_EveryStoreBounded ==
    (store.owner # "" /\ store.method \in CapacityMethods /\ HoldableQuery)
        => store.type = {"number"}

UnlimitedOwners == { "Tombstone", "Ruin" }

\* C8 (amended): the stores of all declared entities except Tombstone and
\* Ruin are capacity-bounded, getCapacity and getFreeCapacity being a
\* number for the resources the store can hold; the stores of Tombstone
\* and Ruin are unlimited, and both methods are null for every argument.
C8_StoresBoundedExceptRemains ==
    /\ { d.owner : d \in { e \in StoreDeclarations : e.t.U } } = UnlimitedOwners
    /\ (store.owner \notin UnlimitedOwners \cup {""}
          /\ store.method \in CapacityMethods /\ HoldableQuery)
         => store.type = {"number"}
    /\ (store.owner \in UnlimitedOwners /\ store.method \in CapacityMethods)
         => store.type = {"null"}

C8_Witness ==
    /\ store.owner = "Ruin"
    /\ store.method = "getCapacity"
    /\ store.R = {RESOURCE_ENERGY}
    /\ store.type = {"null"}

\* C9: for a limited store Store<P, false>, getCapacity(r) and
\* getFreeCapacity(r) are a number exactly when r is in P and null for
\* every other resource; without a resource they are a number exactly
\* when P is the whole ResourceConstant set and null otherwise; for an
\* unlimited store Store<P, true> both are null for every argument.
C9_CapacityTypes ==
    store.method \in CapacityMethods =>
        /\ (~store.t.U /\ Cardinality(store.R) = 1 /\ store.R \subseteq ResourceConstant)
             => /\ store.R \subseteq store.t.P => store.type = {"number"}
                /\ store.R \cap store.t.P = {} => store.type = {"null"}
        /\ (~store.t.U /\ store.R = {Undefined})
             => /\ store.t.P = ResourceConstant => store.type = {"number"}
                /\ store.t.P # ResourceConstant => store.type = {"null"}
        /\ store.t.U => store.type = {"null"}

C9_Witness ==
    /\ store.owner = "StructureLab"
    /\ store.method = "getFreeCapacity"
    /\ store.R = {RESOURCE_POWER}
    /\ store.type = {"null"}

\* C10 (as claimed): a room is in Game.rooms only if the player has a
\* creep or an owned structure in it in that tick.
C10_VisibleOnlyByPresence ==
    tickv.rooms \subseteq Presence(tickv)

\* C10 (amended): a room is in Game.rooms only if the player has a creep
\* or an owned structure in it in that tick, or an observeRoom call for it
\* returned OK in the tick before.
C10_VisibleByPresenceOrObserver ==
    /\ tickv.rooms \subseteq
         Presence(tickv) \cup (IF tickv.observed = NoRoom THEN {} ELSE {tickv.observed})
    /\ tickv.observed # NoRoom =>
         (tickv.mine /\ tickv.rcl /\ Distance(HomeRoom, tickv.observed) <= OBSERVER_RANGE)

C10_Witness ==
    /\ tickv.observed = 3
    /\ 3 \in tickv.rooms
    /\ 3 \notin Presence(tickv)

\* C14: every overload of Room.createConstructionSite and of
\* RoomPosition.createConstructionSite accepts as structureType only a
\* BuildableStructureConstant, so a construction site is only ever
\* requested with a buildable structureType.
C14_OnlyBuildableSites ==
    resolve.op = "site" => resolve.tag \in BuildableStructureConstant

\* C15: the room property of a room object may be undefined only for a
\* Flag or a ConstructionSite; every other room-object interface declares
\* room as Room.
C15_RoomDefinedExceptFlagAndSite ==
    (resolve.op = "room" /\ resolve.tag \notin { "Flag", "ConstructionSite" })
        => resolve.types = { "Room" }

\* C12: MARKET_FEE is 5% (0.05) and is the rate of the three documented
\* charges: price*amount*0.05 for createOrder, price*addAmount*0.05 for
\* extendOrder and (newPrice-oldPrice)*remainingAmount*0.05 for
\* changeOrderPrice, the last only when newPrice > oldPrice;
\* MARKET_ORDER_LIFE_TIME is 2592000000 = 1000*60*60*24*30 milliseconds,
\* exactly 30 days, the age at which an order expires.
C12_MarketFeeAndLifeTime ==
    LET l == market.last
        charged(x) == market.fee.num * MARKET_FEE.den = x * MARKET_FEE.num * market.fee.den
    IN  /\ MARKET_FEE.num * 100 = 5 * MARKET_FEE.den
        /\ (l.m = "createOrder" /\ market.ret = ReturnCodeType.OK)
             => charged(l.price * l.amount)
        /\ (l.m = "extendOrder" /\ market.ret = ReturnCodeType.OK)
             => charged(l.price * l.amount)
        /\ (l.m = "changeOrderPrice" /\ market.ret = ReturnCodeType.OK)
             => IF l.price > l.oldPrice
                THEN charged((l.price - l.oldPrice) * l.amount)
                ELSE market.fee.num = 0
        /\ MARKET_ORDER_LIFE_TIME = [hi |-> 2592, lo |-> 0]
        /\ MARKET_ORDER_LIFE_TIME =
             BigTimes(BigTimes(BigTimes(BigTimes(Big(1000), 60), 60), 24), 30)
        /\ \A d \in 0 .. 60 : Expired(d) <=> d >= 30
        /\ market.order # NoOrder => ~Expired(market.order.days)

C12_Witness ==
    /\ market.last.m = "changeOrderPrice"
    /\ market.ret = ReturnCodeType.OK
    /\ market.last.price = 2 /\ market.last.oldPrice = 1 /\ market.last.amount = 1
    /\ market.fee = [num |-> 5, den |-> 100]

\* C13: a player holds at most MARKET_MAX_ORDERS = 300 orders: the number
\* of the player's orders never exceeds 300, and createOrder returns
\* ERR_FULL only when the player already holds 300 orders, and does not
\* succeed then.
C13_FullExactlyAtMaxOrders ==
    /\ MARKET_MAX_ORDERS = 300
    /\ market.count <= MARKET_MAX_ORDERS
    /\ market.last.m = "createOrder" =>
         /\ market.ret = ReturnCodeType.ERR_FULL => market.last.held = MARKET_MAX_ORDERS
         /\ market.last.held = MARKET_MAX_ORDERS => market.ret # ReturnCodeType.OK

\* The active set in every state.
C16_Active ==
    /\ Cardinality(segs.active) <= 10
    /\ segs.active \subseteq 0 .. 99
    /\ segs.ret = "undefined" => segs.active = segs.arg.ids
    /\ segs.ret = "throw" => segs.active = segs.before
    /\ (segs.arg.kind = "ids" /\ Cardinality(segs.arg.ids) > 10) => segs.ret = "throw"
    /\ (segs.arg.kind = "ids" /\ Cardinality(segs.arg.ids) <= 10) => segs.ret = "undefined"

\* A call leaves RawMemory.segments alone; a tick shows the active set.
C16_Step ==
    /\ segs'.arg.kind # "none" => segs'.segments = segs.segments
    /\ segs'.arg.kind = "none" => segs'.segments = segs.active

C17_OwnDataOnly ==
    LET l == shards.last
    IN  /\ (l.m = "setLocal" /\ l.result = "void") =>
              /\ shards.data[l.on] = l.value
              /\ \A b \in ShardNames \ { l.on } : shards.data[b] = shards.before[b]
        /\ (l.m = "setLocal" /\ l.result = "throw") => shards.data = shards.before
        /\ (l.m = "getLocal" /\ shards.written[l.on] # Null) =>
              l.result = shards.written[l.on]
        /\ (l.m = "getRemote" /\ l.shard \in ShardNames) =>
              l.result = shards.written[l.shard]
        /\ shards.data = shards.written

C17_Witness ==
    /\ shards.last.m = "getRemote"
    /\ shards.last.on = "shard1"
    /\ shards.last.shard = "shard0"
    /\ shards.last.result = "a"
    /\ shards.written = [s \in ShardNames |->
                           IF s = "shard0" THEN "a" ELSE IF s = "shard1" THEN "b" ELSE Null]

\* C18: a power creep is either spawned or unspawned: spawn returns
\* ERR_BUSY exactly when it is already spawned, delete and rename return
\* ERR_BUSY exactly when it is spawned, and the in-world commands return
\* ERR_BUSY exactly when it is not spawned (nothing else being wrong with
\* the call); the creep leaves the account only after delete.
C18_BusyBySpawnState ==
    LET l == pc.last
        wrong == \/ l.id \in PowerCreepAccountMethods /\ l.spawned
                 \/ l.id \in PowerCreepWorldMethods /\ ~l.spawned
    IN  /\ pc.ret = "ERR_BUSY" => wrong
        /\ (l.id # "" /\ wrong /\ l.problem = "none") => pc.ret = "ERR_BUSY"
        /\ ~pc.exists => pc.deleting


\* The calls the two claims about scheduling speak of.
GameCallStep == game'.last # NoGameCall /\ game.last = NoGameCall

C19_Step ==
    GameCallStep /\ game'.last.order \in DOMAIN OrderNames =>
      IF game'.ret = "OK"
        THEN game'.last.order \in game'.intents
        ELSE /\ game'.intents = game.intents
             /\ Snapshot(game') = Snapshot(game)

C20_Step ==
    /\ GameCallStep /\ game'.last.order = "cancelOrder" =>
         LET m == game'.last.arg
         IN  /\ game'.ret = IF m \in game.intents THEN "OK" ELSE "ERR_NOT_FOUND"
             /\ game'.intents = game.intents \ {m}
             /\ Snapshot(game') = Snapshot(game)
    /\ game.last = NoGameCall /\ game'.last = NoGameCall /\ game' # game =>
         game'.applied = game.intents

\* C20: Creep.cancelOrder(methodName) returns OK exactly when an order of
\* that method was scheduled earlier in the tick and not cancelled since,
\* and ERR_NOT_FOUND otherwise; the cancelled order is not carried out at
\* the end of the tick, and the other orders stay scheduled.
C20_CancelOrder == [][C20_Step]_vars

C20_Witness ==
    /\ game.last.order = "cancelOrder" /\ game.last.arg = "transfer"
    /\ game.ret = "OK"
    /\ game.intents = {"suicide"}


\* C22: for every Store<P, U>, getUsedCapacity(r) is a number exactly when
\* the property store[r] is typed number (r in P) and null exactly when
\* store[r] is typed 0 (r not in P), whatever U is; on the unlimited
\* stores of Tombstone and Ruin getUsedCapacity is a number for every
\* resource although getCapacity is null.
C22_UsedCapacityFollowsProperty ==
    (store.method = "getUsedCapacity" /\ Cardinality(store.R) = 1
       /\ store.R \subseteq ResourceConstant) =>
      LET r == CHOOSE x \in store.R : TRUE
      IN  /\ store.type = {"number"} <=> StoreProperty(store.t, r) = "number"
          /\ store.type = {"null"} <=> StoreProperty(store.t, r) = "0"
          /\ store.type \in { {"number"}, {"null"} }
          /\ store.owner \in UnlimitedOwners =>
               /\ store.type = {"number"}
               /\ GetCapacity(store.t, store.R) = {"null"}

C22_Witness ==
    /\ store.owner = "Tombstone"
    /\ store.method = "getUsedCapacity"
    /\ store.R = {RESOURCE_POWER}
    /\ store.type = {"number"}
    /\ StoreProperty(store.t, RESOURCE_POWER) = "number"


\* The matrix a variable of the script holds, in a state.
C21_Held(c, on) == c.heap[MatrixRef(c, on)]

C21_Step ==
    cm.last = NoMatrixCall /\ cm'.last # NoMatrixCall =>
      LET l == cm'.last
          other == IF l.on = "m" THEN "copy" ELSE "m"
      IN  /\ l.op = "new" =>
                \A p \in MatrixPositions : GetCost(C21_Held(cm', "m"), p[1], p[2]) = 0
          /\ l.op = "set" =>
                /\ GetCost(C21_Held(cm', l.on), l.x, l.y) = l.cost
                /\ \A p \in MatrixPositions \ {<<l.x, l.y>>} :
                     GetCost(C21_Held(cm', l.on), p[1], p[2]) =
                       GetCost(C21_Held(cm, l.on), p[1], p[2])
                /\ MatrixRef(cm, other) # 0 =>
                     C21_Held(cm', other) = C21_Held(cm, other)
          /\ l.op = "get" =>
                /\ cm'.result = GetCost(C21_Held(cm, l.on), l.x, l.y)
                /\ cm'.heap = cm.heap
          /\ l.op \in {"clone", "deserialize"} =>
                /\ cm'.copy # 0
                /\ \A p \in MatrixPositions :
                     GetCost(C21_Held(cm', "copy"), p[1], p[2]) =
                       GetCost(C21_Held(cm, "m"), p[1], p[2])
                /\ C21_Held(cm', "m") = C21_Held(cm, "m")

=============================================================================
